---------------------------- MODULE Spec2Model ----------------------------
(***************************************************************************)
(* A model of the Mapbox MCP tutorial applications (Mastra variants):      *)
(*   - the MCP tool operations geocodeLocation, categorySearch and         *)
(*     calculateRoute, hosted (OAuth, one connection per call) and local   *)
(*     (stdio subprocess, singleton client);                               *)
(*   - route planning: the plan-route agent tool (Promise.all fan-out)     *)
(*     and the plan HTTP handler (sequential loop);                        *)
(*   - processNaturalLanguageQuery with its module-level capture           *)
(*     variables, and the page's handleSubmitQuery;                        *)
(*   - the OAuth flow: handleLogin, the /auth/callback GET handler, the    *)
(*     page's mount effect and exchangeCodeForToken.                       *)
(* Each part has its own specification (SpecTools, SpecPlan, SpecAgent,    *)
(* SpecOAuth); a specification leaves the other parts' variables alone.    *)
(***************************************************************************)
EXTENDS Integers, Sequences, FiniteSets, TLC

VARIABLES
    \* ---- tool operations (SpecTools)
    tPc,            \* "idle" | "connecting" | "requesting" | "done"
    tCall,          \* the operation in progress: [op, variant, args]
    tOpened,        \* client connections opened by the call in progress
    tSent,          \* tools/call requests sent by the call in progress
    tResult,        \* the tool's answer, once received
    tOutcome,       \* what the operation returned or threw
    mcpClient,      \* local variant's singleton: "null" | "created" | "connected"
    hStatus,        \* category-search HTTP handler: response status (0: none)
    hBody,          \* category-search HTTP handler: response body
    \* ---- route planning (SpecPlan)
    pPc,            \* "idle" | "geocoding" | "routing" | "done"
    pFlow,          \* "tool" (plan-route execute) | "handler" (plan POST) | "none"
    pInput,         \* the locations (tool) or attractions (handler) of the request
    pGeoState,      \* per input: "notStarted" | "pending" | "settled"
    pGeoOut,        \* per input: what its geocodeLocation call returned or threw
    pOrder,         \* the inputs' indexes in the order their geocoding settled
    pLocations,     \* geocoded (tool) / locations (handler)
    pDirections,    \* the coordinate lists calculateRoute was called with
    pRoute,         \* the route calculateRoute returned (const route)
    pOutcome,       \* what execute returned or threw / the handler's response
    capturedRouteData,  \* module-level capture variable of the agent module
    \* ---- natural-language queries (SpecAgent)
    capturedSearchResults,  \* module-level capture variable of the agent module
    aPc,            \* "idle" | "posted" | "generating" | "responded" | "done"
    aRequest,       \* the body of the POST /api/query in flight, and who sent it
    aToolRuns,      \* tool executions of the agent invocation in progress
    aCapturedBy,    \* the tools that produced output during this invocation
    aLastCapture,   \* the tool that produced output most recently during it
    aResponse,      \* the handler's response
    \* ---- the page (Home component state)
    accessToken,
    query,
    loading,
    error,
    aiResponse,
    routeData,
    searchResults,
    \* ---- the OAuth flow (SpecOAuth)
    tokenStorage,   \* sessionStorage 'mapbox_mcp_token'
    oauthState,     \* sessionStorage 'oauth_state'
    clientStorage,  \* localStorage 'mapbox_oauth_client_id' / '..._secret'
    envClientId,    \* NEXT_PUBLIC_MAPBOX_OAUTH_CLIENT_ID ("" when not configured)
    location,       \* where the browser is, with the URL's fragment and search
    oPc,            \* the page: "loading" | "mounted" | "away"
    regPending,     \* registerOAuthClient requests awaited by handleLogin
    regCount,       \* registration requests sent so far
    exPending,      \* the exchangeCodeForToken promise the mount effect awaits
    tokenRequests,  \* the POSTs to the token endpoint: the invocation's number and the body
    exchangeCount,  \* exchangeCodeForToken invocations so far
    exchangeLog,    \* per invocation: the code, the callback's state, the stored state
    exResponse,     \* the token endpoint's answer to the exchange that settled last
    cbRequest,      \* the parameters of the last GET /auth/callback that led to this page
    \* ---- calls of the exported functions on their own (SpecAuthUrl)
    callLog,        \* per call: the arguments and what the call returned or threw
    \* ---- overlapping hosted tool calls and their HTTP requests (SpecFetch)
    fCalls,         \* per call in flight: its position, its accessToken, the requests it sent
    fLatest,        \* the accessToken of the most recent getMCPClient call
    \* ---- overlapping processNaturalLanguageQuery calls (SpecRace)
    rCalls,         \* per call: its position, what its tools captured, what it returned
    rWriter,        \* per capture variable: the call that assigned it last (0: cleared)
    \* ---- overlapping calls of the local variant's operations (SpecLocal)
    lCalls,         \* per call: its position, the client getMCPClient handed it
    lCreated,       \* Client objects and StdioClientTransports created so far
    lConnect        \* the singleton's connect: "none" | "pending" | "ok" | "failed"

toolVars == <<tPc, tCall, tOpened, tSent, tResult, tOutcome, mcpClient, hStatus, hBody>>

planVars == <<pPc, pFlow, pInput, pGeoState, pGeoOut, pOrder, pLocations, pDirections,
              pRoute, pOutcome, capturedRouteData>>

agentVars == <<capturedSearchResults, aPc, aRequest, aToolRuns, aCapturedBy, aLastCapture,
               aResponse>>

pageVars == <<accessToken, query, loading, error, aiResponse, routeData, searchResults>>

oauthVars == <<tokenStorage, oauthState, clientStorage, envClientId, location, oPc,
               regPending, regCount, exPending, tokenRequests, exchangeCount, exchangeLog,
               exResponse, cbRequest>>

callVars == <<callLog>>

fetchVars == <<fCalls, fLatest>>

raceVars == <<rCalls, rWriter>>

localVars == <<lCalls, lCreated, lConnect>>

vars == <<toolVars, planVars, agentVars, pageVars, oauthVars, callVars, fetchVars, raceVars,
          localVars>>

\* what the actions of one part leave alone
notToolVars == <<planVars, agentVars, pageVars, oauthVars, callVars, fetchVars, raceVars, localVars>>
notPlanVars == <<toolVars, agentVars, pageVars, oauthVars, callVars, fetchVars, raceVars, localVars>>
notAgentVars == <<toolVars, pPc, pFlow, pInput, pGeoState, pGeoOut, pOrder, pLocations,
                  pDirections, pRoute, pOutcome, oauthVars, callVars, fetchVars, raceVars, localVars>>
notOAuthVars == <<toolVars, planVars, agentVars, query, aiResponse, routeData, searchResults,
                  callVars, fetchVars, raceVars, localVars>>
notPageVars == <<toolVars, planVars, agentVars, callVars, fetchVars, raceVars, localVars>>
notCallVars == <<toolVars, planVars, agentVars, pageVars, tokenStorage, oauthState,
                 clientStorage, envClientId, location, oPc, regPending, regCount, exPending,
                 tokenRequests, exchangeCount, exchangeLog, exResponse, cbRequest,
                 fetchVars, raceVars, localVars>>
notFetchVars == <<toolVars, planVars, agentVars, pageVars, oauthVars, callVars, raceVars,
                  localVars>>
notRaceVars == <<toolVars, pPc, pFlow, pInput, pGeoState, pGeoOut, pOrder, pLocations,
                 pDirections, pRoute, pOutcome, aPc, aRequest, aToolRuns, aCapturedBy,
                 aLastCapture, aResponse, pageVars, oauthVars, callVars, fetchVars, localVars>>
notLocalVars == <<tPc, tCall, tOpened, tSent, tResult, tOutcome, hStatus, hBody, planVars,
                  agentVars, pageVars, oauthVars, callVars, fetchVars, raceVars>>

-----------------------------------------------------------------------------
(* Bounds of the model *)

MaxContent == 2
MaxFeatures == 2
MaxRoutes == 2
MaxCoords == 3
MaxLocs == 3
MaxToolRuns == 3
MaxRegistrations == 2
MaxExchanges == 2
MaxCalls == 2
MaxOverlap == 2
MaxParamLen == 2

-----------------------------------------------------------------------------
(* JavaScript values *)

\* undefined, for the string-valued properties of a feature
Undefined == "undefined"

\* null, for the string-valued state of the page
Null == "null"

\* r.f is present
Has(r, f) == f \in DOMAIN r

\* r.f for a string-valued optional property
Prop(r, f) == IF Has(r, f) THEN r[f] ELSE Undefined

\* a || b on strings: undefined and "" are falsy
Or(a, b) == IF a \notin {Undefined, ""} THEN a ELSE b

\* the sequences over S of length at most n
SeqUpTo(S, n) == UNION {[1..k -> S] : k \in 0..n}

\* return v / throw new <name>(<message>); a message is the sequence of the
\* pieces its template literal concatenates
Return(v) == [kind |-> "return", value |-> v]
Throw(name, message) == [kind |-> "throw", name |-> name, message |-> message]

NoValue == [kind |-> "none"]

-----------------------------------------------------------------------------
(* Tool results (CallToolResult) *)

ErrorTexts == {"rate limited", "bad request"}

ContentEntries == {[type |-> "text", text |-> t] : t \in ErrorTexts} \cup {[type |-> "image"]}

Coords == {<<-77, 38>>, <<-76, 39>>}

FeatureProperties ==
    { [name |-> "White House", full_address |-> "1600 Pennsylvania Ave NW"],
      [full_address |-> "East Capitol St NE"],
      [name |-> "", place_formatted |-> "Washington, DC"] }

Features == {[properties |-> p, geometry |-> [coordinates |-> c]] :
                p \in FeatureProperties, c \in Coords}

\* a directions route: distance in centimetres, duration in seconds
Routes == {[geometry |-> g, distance |-> d, duration |-> s] :
              g \in {"line1", "line2"}, d \in {160000, 160934}, s \in {125, 600}}

ErrorResults == {[isError |-> TRUE, content |-> c] : c \in SeqUpTo(ContentEntries, MaxContent)}

\* isError absent or false; structuredContent absent, without the field, or with it
NoDataResults == {[isError |-> FALSE, content |-> <<>>],
                  [content |-> <<>>, structuredContent |-> [type |-> "FeatureCollection"]]}

FeatureResults ==
    {[isError |-> FALSE, content |-> <<>>, structuredContent |-> [features |-> fs]] :
        fs \in SeqUpTo(Features, MaxFeatures)}

RouteResults ==
    {[isError |-> FALSE, content |-> <<>>, structuredContent |-> [routes |-> rs]] :
        rs \in SeqUpTo(Routes, MaxRoutes)}

GeocodeToolResults == ErrorResults \cup NoDataResults \cup FeatureResults
CategoryToolResults == ErrorResults \cup NoDataResults \cup FeatureResults
DirectionsToolResults == ErrorResults \cup NoDataResults \cup RouteResults

\* result.isError is truthy
IsError(result) == Has(result, "isError") /\ result.isError

\* !data || !data.features || data.features.length === 0
NoFeatures(result) ==
    \/ ~Has(result, "structuredContent")
    \/ ~Has(result.structuredContent, "features")
    \/ Len(result.structuredContent.features) = 0

\* !data || !data.routes || data.routes.length === 0
NoRoutes(result) ==
    \/ ~Has(result, "structuredContent")
    \/ ~Has(result.structuredContent, "routes")
    \/ Len(result.structuredContent.routes) = 0

-----------------------------------------------------------------------------
(* The tool operations, hosted variant: what each does with the tool's answer *)

\* if (result.isError) { const firstContent = result.content[0]; ... }
\* (the block is repeated verbatim in geocodeLocation, categorySearch and
\* calculateRoute). Reading .type of an absent first entry is a TypeError.
ToolErrorThrown(result) ==
    IF Len(result.content) = 0
    THEN Throw("TypeError", <<"Cannot read properties of undefined (reading 'type')">>)
    ELSE IF result.content[1].type = "text"
         THEN Throw("Error", <<"MCP tool error: ", result.content[1].text>>)
         ELSE Throw("Error", <<"MCP tool returned an error">>)

\* { name, coordinates } of a feature
LocationOf(feature) ==
    [name |-> Or(Prop(feature.properties, "name"), Prop(feature.properties, "full_address")),
     coordinates |-> feature.geometry.coordinates]

\* { name, coordinates, address } of a feature
SearchResultOf(feature) ==
    [name |-> Or(Prop(feature.properties, "name"), Prop(feature.properties, "full_address")),
     coordinates |-> feature.geometry.coordinates,
     address |-> Or(Prop(feature.properties, "full_address"),
                    Prop(feature.properties, "place_formatted"))]

geocodeLocation_LastFeature(address, result) ==
    IF IsError(result) THEN ToolErrorThrown(result)
    ELSE IF NoFeatures(result) THEN Throw("Error", <<"Could not geocode: ", address>>)
    ELSE Return(LocationOf(result.structuredContent.features[
                               Len(result.structuredContent.features)]))

geocodeLocation(address, result) ==
    IF IsError(result) THEN ToolErrorThrown(result)
    ELSE IF NoFeatures(result) THEN Throw("Error", <<"Could not geocode: ", address>>)
    ELSE Return(LocationOf(result.structuredContent.features[1]))

categorySearch_ThrowsOnEmpty(category, result) ==
    IF IsError(result) THEN ToolErrorThrown(result)
    ELSE IF NoFeatures(result) THEN Throw("Error", <<"No results for: ", category>>)
    ELSE Return([i \in 1..Len(result.structuredContent.features) |->
                    SearchResultOf(result.structuredContent.features[i])])

categorySearch(category, result) ==
    IF IsError(result) THEN ToolErrorThrown(result)
    ELSE IF NoFeatures(result) THEN Return(<<>>)
    ELSE Return([i \in 1..Len(result.structuredContent.features) |->
                    SearchResultOf(result.structuredContent.features[i])])

calculateRoute_LastRoute(coordinates, result) ==
    IF IsError(result) THEN ToolErrorThrown(result)
    ELSE IF NoRoutes(result) THEN Throw("Error", <<"No route found">>)
    ELSE Return(result.structuredContent.routes[Len(result.structuredContent.routes)])

calculateRoute(coordinates, result) ==
    IF IsError(result) THEN ToolErrorThrown(result)
    ELSE IF NoRoutes(result) THEN Throw("Error", <<"No route found">>)
    ELSE Return(result.structuredContent.routes[1])

-----------------------------------------------------------------------------
(* The tool operations, local (stdio) variant *)

ToolErrorThrownLocal(result) ==
    IF Len(result.content) = 0
    THEN Throw("TypeError", <<"Cannot read properties of undefined (reading 'type')">>)
    ELSE IF result.content[1].type = "text"
         THEN Throw("Error", <<"MCP tool error: ", result.content[1].text>>)
         ELSE Throw("Error", <<"MCP tool returned an error">>)

geocodeLocationLocal(address, result) ==
    IF IsError(result) THEN ToolErrorThrownLocal(result)
    ELSE IF NoFeatures(result) THEN Throw("Error", <<"Could not geocode: ", address>>)
    ELSE Return(LocationOf(result.structuredContent.features[1]))

categorySearchLocal(category, result) ==
    IF IsError(result) THEN ToolErrorThrownLocal(result)
    ELSE IF NoFeatures(result) THEN Return(<<>>)
    ELSE Return([i \in 1..Len(result.structuredContent.features) |->
                    SearchResultOf(result.structuredContent.features[i])])

calculateRouteLocal(coordinates, result) ==
    IF IsError(result) THEN ToolErrorThrownLocal(result)
    ELSE IF NoRoutes(result) THEN Throw("Error", <<"No route found">>)
    ELSE Return(result.structuredContent.routes[1])

-----------------------------------------------------------------------------
(* One tool operation at a time: connection, request, answer (SpecTools) *)

Variants == {"hosted", "local"}
Addresses == {"White House", "Capitol Hill"}
Categories == {"coffee"}
ProximityPoints == {[longitude |-> -77, latitude |-> 38]}
Tokens == {"tokA"}

\* limit: 10
CategoryLimit == 10

NoCall == [op |-> "none", variant |-> "none", via |-> "none"]

GeocodeCalls ==
    {[op |-> "geocodeLocation", variant |-> v, via |-> "direct", args |-> [address |-> a]] :
        v \in Variants, a \in Addresses}

CategoryCalls ==
    {[op |-> "categorySearch", variant |-> v, via |-> "direct",
      args |-> [category |-> c, proximity |-> p]] :
        v \in Variants, c \in Categories, p \in ProximityPoints}

RouteCalls ==
    {[op |-> "calculateRoute", variant |-> v, via |-> "direct", args |-> [coordinates |-> cs]] :
        v \in Variants, cs \in SeqUpTo(Coords, MaxCoords)}

ToolCalls == GeocodeCalls \cup CategoryCalls \cup RouteCalls

\* the tools/call request an operation builds; the proximity bias point of
\* geocoding is (-77.0369, 38.9072), here in 1e-4 degrees
Request(call) ==
    CASE call.op = "geocodeLocation" ->
            [name |-> "search_and_geocode_tool",
             arguments |-> [q |-> call.args.address,
                            proximity |-> [longitude |-> -770369, latitude |-> 389072],
                            country |-> <<"us">>]]
      [] call.op = "categorySearch" ->
            [name |-> "category_search_tool",
             arguments |-> [category |-> call.args.category,
                            proximity |-> call.args.proximity,
                            country |-> <<"us">>,
                            limit |-> CategoryLimit,
                            format |-> "json_string"]]
      [] call.op = "calculateRoute" ->
            [name |-> "directions_tool",
             arguments |-> [coordinates |->
                                [i \in 1..Len(call.args.coordinates) |->
                                    [longitude |-> call.args.coordinates[i][1],
                                     latitude |-> call.args.coordinates[i][2]]],
                            routing_profile |-> "walking",
                            geometries |-> "geojson"]]

\* the answers the tool of an operation may give
ResultsFor(call) ==
    CASE call.op = "geocodeLocation" -> GeocodeToolResults
      [] call.op = "categorySearch" -> CategoryToolResults
      [] call.op = "calculateRoute" -> DirectionsToolResults

\* what the operation makes of the tool's answer
Process(call, result) ==
    CASE call.op = "geocodeLocation" /\ call.variant = "hosted" ->
            geocodeLocation(call.args.address, result)
      [] call.op = "geocodeLocation" /\ call.variant = "local" ->
            geocodeLocationLocal(call.args.address, result)
      [] call.op = "categorySearch" /\ call.variant = "hosted" ->
            categorySearch(call.args.category, result)
      [] call.op = "categorySearch" /\ call.variant = "local" ->
            categorySearchLocal(call.args.category, result)
      [] call.op = "calculateRoute" /\ call.variant = "hosted" ->
            calculateRoute(call.args.coordinates, result)
      [] call.op = "calculateRoute" /\ call.variant = "local" ->
            calculateRouteLocal(call.args.coordinates, result)

\* the category-search handler's answer to what categorySearch returned or threw:
\* NextResponse.json(results), or in the catch block { error: message }, status 500
CategoryHandlerStatus(outcome) == IF outcome.kind = "return" THEN 200 ELSE 500

CategoryHandlerBody(outcome) ==
    IF outcome.kind = "return" THEN outcome.value ELSE [error |-> outcome.message]

\* the operation ends with `outcome`; a call made by the HTTP handler answers the request
Finish(outcome) ==
    /\ tPc' = "done"
    /\ tOutcome' = outcome
    /\ IF tCall.via = "handler"
       THEN /\ hStatus' = CategoryHandlerStatus(outcome)
            /\ hBody' = CategoryHandlerBody(outcome)
       ELSE UNCHANGED <<hStatus, hBody>>

OpensConnection_SharedClient(call, client) ==
    client = "null"

OpensConnection_UntilConnected(call, client) ==
    call.variant = "hosted" \/ client # "connected"

\* getMCPClient creates a transport and a client: always (hosted), or when the
\* singleton is not set (local)
OpensConnection(call, client) ==
    call.variant = "hosted" \/ client = "null"

\* getMCPClient, hosted: a new transport and client for every call, then connect.
\* getMCPClient, local: the singleton if set, else create it, assign it, then connect.
Begin(call) ==
    /\ tPc = "idle"
    /\ tCall' = call
    /\ tResult' = NoValue
    /\ IF OpensConnection(call, mcpClient)
       THEN /\ tPc' = "connecting"
            /\ tOpened' = 1
            /\ tSent' = <<>>
            /\ mcpClient' = IF call.variant = "local" THEN "created" ELSE mcpClient
            /\ tOutcome' = NoValue
            /\ UNCHANGED <<hStatus, hBody>>
       ELSE /\ tOpened' = 0
            /\ UNCHANGED mcpClient
            /\ IF mcpClient = "connected"
               THEN /\ tPc' = "requesting"
                    /\ tSent' = <<Request(call)>>
                    /\ tOutcome' = NoValue
                    /\ UNCHANGED <<hStatus, hBody>>
               ELSE \* the client was assigned but its connect failed: request() throws
                    /\ tPc' = "done"
                    /\ tSent' = <<>>
                    /\ tOutcome' = Throw("Error", <<"Not connected">>)
                    /\ UNCHANGED <<hStatus, hBody>>

\* a direct call of geocodeLocation, categorySearch or calculateRoute
ToolInvoke ==
    /\ UNCHANGED notToolVars
    /\ \E call \in ToolCalls : Begin(call)

RequiredFieldsStatus_TokenFirst(field, token) ==
    IF token \in {Undefined, ""} THEN 401
    ELSE IF field \in {Undefined, ""} THEN 400
    ELSE 200

\* the checks both OAuth handlers start with: if (!category) 400 (if (!query) 400),
\* then if (!accessToken) 401; 200 stands for neither
RequiredFieldsStatus(field, token) ==
    IF field \in {Undefined, ""} THEN 400
    ELSE IF token \in {Undefined, ""} THEN 401
    ELSE 200

\* a request the handler answers without calling categorySearch
RejectedCall(category, proximity, token) ==
    [op |-> "none", variant |-> "none", via |-> "handler",
     args |-> [category |-> category, proximity |-> proximity, accessToken |-> token]]

\* POST /api/category-search (OAuth variant)
CategoryHandlerPOST ==
    /\ UNCHANGED notToolVars
    /\ tPc = "idle"
    /\ \E category \in Categories \cup {Undefined, ""}, token \in Tokens \cup {Undefined},
          proximity \in ProximityPoints :
        IF RequiredFieldsStatus(category, token) = 400
        THEN /\ hStatus' = 400
             /\ hBody' = [error |-> <<"Category is required">>]
             /\ tPc' = "done"
             /\ tCall' = RejectedCall(category, proximity, token)
             /\ UNCHANGED <<tOpened, tSent, tResult, tOutcome, mcpClient>>
        ELSE IF RequiredFieldsStatus(category, token) = 401
        THEN /\ hStatus' = 401
             /\ hBody' = [error |-> <<"Access token is required">>]
             /\ tPc' = "done"
             /\ tCall' = RejectedCall(category, proximity, token)
             /\ UNCHANGED <<tOpened, tSent, tResult, tOutcome, mcpClient>>
        ELSE Begin([op |-> "categorySearch", variant |-> "hosted", via |-> "handler",
                    args |-> [category |-> category, proximity |-> proximity,
                              accessToken |-> token]])

\* await client.connect(transport) settles
ConnectDone ==
    /\ UNCHANGED notToolVars
    /\ tPc = "connecting"
    /\ \E ok \in BOOLEAN :
        IF ok
        THEN /\ tPc' = "requesting"
             /\ tSent' = Append(tSent, Request(tCall))
             /\ mcpClient' = IF tCall.variant = "local" THEN "connected" ELSE mcpClient
             /\ UNCHANGED <<tCall, tOpened, tResult, tOutcome, hStatus, hBody>>
        ELSE /\ Finish(Throw("Error", <<"connect failed">>))
             /\ UNCHANGED <<tCall, tOpened, tSent, tResult, mcpClient>>

\* await client.request(request, CallToolResultSchema) resolves with the tool's answer
ToolAnswers ==
    /\ UNCHANGED notToolVars
    /\ tPc = "requesting"
    /\ \E result \in ResultsFor(tCall) :
        /\ tResult' = result
        /\ Finish(Process(tCall, result))
    /\ UNCHANGED <<tCall, tOpened, tSent, mcpClient>>

\* await client.request(...) rejects (transport or protocol error)
RequestFails ==
    /\ UNCHANGED notToolVars
    /\ tPc = "requesting"
    /\ Finish(Throw("McpError", <<"request failed">>))
    /\ UNCHANGED <<tCall, tOpened, tSent, tResult, mcpClient>>

\* the caller has its answer; the next call may start
ToolReset ==
    /\ UNCHANGED notToolVars
    /\ tPc = "done"
    /\ tPc' = "idle"
    /\ tCall' = NoCall
    /\ tOpened' = 0
    /\ tSent' = <<>>
    /\ tResult' = NoValue
    /\ tOutcome' = NoValue
    /\ hStatus' = 0
    /\ hBody' = <<>>
    /\ UNCHANGED mcpClient

NextTools ==
    \/ ToolInvoke
    \/ CategoryHandlerPOST
    \/ ConnectDone
    \/ ToolAnswers
    \/ RequestFails
    \/ ToolReset

-----------------------------------------------------------------------------
(* Route planning: the plan-route tool and the plan HTTP handler (SpecPlan) *)

Landmarks == <<"White House", "Capitol Hill", "Lincoln Memorial">>
StreetAddresses == <<"1600 Pennsylvania Ave NW", "East Capitol St NE", "2 Lincoln Memorial Cir NW">>
AttractionIds == <<"white-house", "capitol", "lincoln-memorial">>

Landmark(i) == Landmarks[((i - 1) % Len(Landmarks)) + 1]
StreetAddress(i) == StreetAddresses[((i - 1) % Len(StreetAddresses)) + 1]
AttractionId(i) == AttractionIds[((i - 1) % Len(AttractionIds)) + 1]

\* the location lists the agent may pass to plan-route
PlanLocationLists == {[i \in 1..k |-> Landmark(i)] : k \in 0..MaxLocs}

\* the request bodies of the plan handler: without attractions, or with a list
PlanBodies ==
    {[other |-> "x"]} \cup
    {[attractions |-> [i \in 1..k |-> [id |-> AttractionId(i), name |-> Landmark(i), address |-> StreetAddress(i)]]] :
        k \in 0..MaxLocs}

\* the connection or the request failed: the operation rejects without an answer
TransportFailure == [transport |-> "failed"]

PlanGeocodeAnswers ==
    { [isError |-> TRUE, content |-> <<[type |-> "text", text |-> "rate limited"]>>],
      [isError |-> FALSE, content |-> <<>>, structuredContent |-> [features |-> <<>>]],
      [isError |-> FALSE, content |-> <<>>, structuredContent |-> [features |->
          <<[properties |-> [name |-> "White House", full_address |-> "1600 Pennsylvania Ave NW"],
             geometry |-> [coordinates |-> <<-77, 38>>]]>>]],
      [isError |-> FALSE, content |-> <<>>, structuredContent |-> [features |->
          <<[properties |-> [full_address |-> "East Capitol St NE"],
             geometry |-> [coordinates |-> <<-76, 39>>]]>>]],
      TransportFailure }

PlanDirectionsAnswers ==
    { [isError |-> TRUE, content |-> <<[type |-> "text", text |-> "rate limited"]>>],
      [isError |-> FALSE, content |-> <<>>, structuredContent |-> [routes |-> <<>>]],
      [isError |-> FALSE, content |-> <<>>, structuredContent |-> [routes |->
          <<[geometry |-> "line1", distance |-> 160000, duration |-> 600]>>]],
      [isError |-> FALSE, content |-> <<>>, structuredContent |-> [routes |->
          <<[geometry |-> "line2", distance |-> 160934, duration |-> 125]>>]],
      [isError |-> FALSE, content |-> <<>>, structuredContent |-> [routes |->
          <<[geometry |-> "line2", distance |-> 160000, duration |-> 100]>>]],
      TransportFailure }

\* what a geocodeLocation / calculateRoute call settles with
GeocodeOutcome(variant, address, answer) ==
    IF Has(answer, "transport") THEN Throw("Error", <<"connect failed">>)
    ELSE IF variant = "hosted" THEN geocodeLocation(address, answer)
    ELSE geocodeLocationLocal(address, answer)

RouteOutcome(variant, coordinates, answer) ==
    IF Has(answer, "transport") THEN Throw("Error", <<"connect failed">>)
    ELSE IF variant = "hosted" THEN calculateRoute(coordinates, answer)
    ELSE calculateRouteLocal(coordinates, answer)

\* route.distance * 0.000621371 for a distance given in centimetres: the exact
\* product in units of 1e-8 mile (e8) and the rest in units of 1e-11 mile (e11)
MilesOf(cm) == [e8 |-> cm * 621 + (cm * 371) \div 1000, e11 |-> (cm * 371) % 1000]

ToFixed2_Truncates(miles) == [fixed2 |-> miles.e8 \div 1000000]

\* (miles).toFixed(2): the two-decimal string "d.dd", given by its number of hundredths
ToFixed2(miles) == [fixed2 |-> (miles.e8 + 500000) \div 1000000]

\* Math.round(seconds / 60)
RoundMinutes(seconds) == (seconds + 30) \div 60

\* NextResponse.json(body, { status })
Response(status, body) == [kind |-> "response", status |-> status, body |-> body]

\* Promise.all over the geocoding promises: rejected as soon as one rejects,
\* fulfilled once all are fulfilled
PromiseAll(states, outs) ==
    IF \E i \in DOMAIN states : states[i] = "settled" /\ outs[i].kind = "throw"
    THEN "rejected"
    ELSE IF \A i \in DOMAIN states : states[i] = "settled" THEN "fulfilled" ELSE "pending"

PromiseAllValues_CompletionOrder(outs, order) ==
    [k \in 1..Len(outs) |-> outs[order[k]].value]

\* the array a fulfilled Promise.all resolves to: by position, whatever the order of completion
PromiseAllValues(outs, order) ==
    [i \in 1..Len(outs) |-> outs[i].value]

\* locations.map(loc => loc.coordinates)
CoordinatesOf(locations) == [i \in 1..Len(locations) |-> locations[i].coordinates]

\* the RouteData plan-route captures for the UI
RouteDataOf(geocoded, route) ==
    [locations |-> geocoded,
     route |-> route.geometry,
     distance |-> ToFixed2(MilesOf(route.distance)),
     duration |-> RoundMinutes(route.duration)]

\* plan-route execute({ locations }): the input schema admits lists of at least 2
PlanRouteExecute ==
    /\ UNCHANGED notPlanVars
    /\ pPc = "idle"
    /\ \E locations \in PlanLocationLists :
        /\ Len(locations) >= 2
        /\ pFlow' = "tool"
        /\ pInput' = locations
        /\ pGeoState' = [i \in 1..Len(locations) |-> "pending"]
        /\ pGeoOut' = [i \in 1..Len(locations) |-> NoValue]
    /\ pPc' = "geocoding"
    /\ pOrder' = <<>>
    /\ pLocations' = <<>>
    /\ pDirections' = <<>>
    /\ pRoute' = NoValue
    /\ pOutcome' = NoValue
    /\ UNCHANGED capturedRouteData

\* one geocodeLocation call of plan-route settles; Promise.all rejects, resolves
\* (then calculateRoute is called) or stays pending. After a rejection execute
\* has already thrown, and the other calls settle unobserved.
ToolGeocodeSettles ==
    /\ UNCHANGED notPlanVars
    /\ pFlow = "tool"
    /\ \E i \in DOMAIN pGeoState, answer \in PlanGeocodeAnswers :
        /\ pGeoState[i] = "pending"
        /\ LET out == GeocodeOutcome("hosted", pInput[i], answer)
               states == [pGeoState EXCEPT ![i] = "settled"]
               outs == [pGeoOut EXCEPT ![i] = out]
               order == Append(pOrder, i)
               geocoded == PromiseAllValues(outs, order)
           IN /\ pGeoState' = states
              /\ pGeoOut' = outs
              /\ pOrder' = order
              /\ IF pPc # "geocoding"
                 THEN UNCHANGED <<pPc, pLocations, pDirections, pOutcome>>
                 ELSE IF PromiseAll(states, outs) = "rejected"
                 THEN /\ pPc' = "done"
                      /\ pOutcome' = out
                      /\ UNCHANGED <<pLocations, pDirections>>
                 ELSE IF PromiseAll(states, outs) = "fulfilled"
                 THEN /\ pPc' = "routing"
                      /\ pLocations' = geocoded
                      /\ pDirections' = Append(pDirections, CoordinatesOf(geocoded))
                      /\ UNCHANGED pOutcome
                 ELSE UNCHANGED <<pPc, pLocations, pDirections, pOutcome>>
    /\ UNCHANGED <<pFlow, pInput, pRoute, capturedRouteData>>

\* plan-route: await calculateRoute(coords, accessToken) settles
ToolRouteSettles ==
    /\ UNCHANGED notPlanVars
    /\ pFlow = "tool"
    /\ pPc = "routing"
    /\ \E answer \in PlanDirectionsAnswers :
        LET out == RouteOutcome("hosted", pDirections[Len(pDirections)], answer)
        IN IF out.kind = "throw"
           THEN /\ pOutcome' = out
                /\ UNCHANGED <<pRoute, capturedRouteData>>
           ELSE /\ pRoute' = out.value
                /\ capturedRouteData' = RouteDataOf(pLocations, out.value)
                /\ pOutcome' = Return([distance |-> capturedRouteData'.distance,
                                       duration |-> capturedRouteData'.duration])
    /\ pPc' = "done"
    /\ UNCHANGED <<pFlow, pInput, pGeoState, pGeoOut, pOrder, pLocations, pDirections>>

TooFewAttractions_OnlyMissing(body) ==
    ~Has(body, "attractions")

\* !attractions || attractions.length < 2
TooFewAttractions(body) ==
    ~Has(body, "attractions") \/ Len(body.attractions) < 2

\* POST /api/plan: the attractions check, then the first geocodeLocation call
PlanHandlerPOST ==
    /\ UNCHANGED notPlanVars
    /\ pPc = "idle"
    /\ \E body \in PlanBodies :
        IF TooFewAttractions(body)
        THEN /\ pPc' = "done"
             /\ pFlow' = "handler"
             /\ pInput' = IF Has(body, "attractions") THEN body.attractions ELSE <<>>
             /\ pOutcome' = Response(400, [error |-> <<"At least 2 attractions are required">>])
             /\ pGeoState' = <<>>
             /\ pGeoOut' = <<>>
        ELSE /\ pPc' = "geocoding"
             /\ pFlow' = "handler"
             /\ pInput' = body.attractions
             /\ pOutcome' = NoValue
             /\ pGeoState' = [i \in 1..Len(body.attractions) |->
                                 IF i = 1 THEN "pending" ELSE "notStarted"]
             /\ pGeoOut' = [i \in 1..Len(body.attractions) |-> NoValue]
    /\ pOrder' = <<>>
    /\ pLocations' = <<>>
    /\ pDirections' = <<>>
    /\ pRoute' = NoValue
    /\ UNCHANGED capturedRouteData

HandlerAfterGeocode_SkipsFailed(locations, attraction, out) ==
    IF out.kind = "throw"
    THEN [abort |-> FALSE, locations |-> locations]
    ELSE [abort |-> FALSE,
          locations |-> Append(locations, [name |-> attraction.name,
                                           coordinates |-> out.value.coordinates])]

\* the body of the handler's loop: the inner catch answers 500 and returns;
\* otherwise the location is pushed under the attraction's own name
HandlerAfterGeocode(locations, attraction, out) ==
    IF out.kind = "throw"
    THEN [abort |-> TRUE, locations |-> locations]
    ELSE [abort |-> FALSE,
          locations |-> Append(locations, [name |-> attraction.name,
                                           coordinates |-> out.value.coordinates])]

\* plan handler: await geocodeLocation(attraction.address) settles
HandlerGeocodeSettles ==
    /\ UNCHANGED notPlanVars
    /\ pFlow = "handler"
    /\ pPc = "geocoding"
    /\ \E i \in DOMAIN pGeoState, answer \in PlanGeocodeAnswers :
        /\ pGeoState[i] = "pending"
        /\ LET out == GeocodeOutcome("local", pInput[i].address, answer)
               step == HandlerAfterGeocode(pLocations, pInput[i], out)
           IN /\ pGeoOut' = [pGeoOut EXCEPT ![i] = out]
              /\ pOrder' = Append(pOrder, i)
              /\ pLocations' = step.locations
              /\ IF step.abort
                 THEN /\ pPc' = "done"
                      /\ pOutcome' = Response(500, [error |-> <<"Failed to geocode ", pInput[i].name>>])
                      /\ pGeoState' = [pGeoState EXCEPT ![i] = "settled"]
                      /\ UNCHANGED pDirections
                 ELSE IF i < Len(pInput)
                 THEN /\ pGeoState' = [pGeoState EXCEPT ![i] = "settled", ![i + 1] = "pending"]
                      /\ UNCHANGED <<pPc, pOutcome, pDirections>>
                 ELSE /\ pGeoState' = [pGeoState EXCEPT ![i] = "settled"]
                      /\ pPc' = "routing"
                      /\ pDirections' = Append(pDirections, CoordinatesOf(step.locations))
                      /\ UNCHANGED pOutcome
    /\ UNCHANGED <<pFlow, pInput, pRoute, capturedRouteData>>

\* plan handler: await calculateRoute(coordinates) settles; the outer catch answers 500
HandlerRouteSettles ==
    /\ UNCHANGED notPlanVars
    /\ pFlow = "handler"
    /\ pPc = "routing"
    /\ \E answer \in PlanDirectionsAnswers :
        LET out == RouteOutcome("local", pDirections[Len(pDirections)], answer)
        IN IF out.kind = "throw"
           THEN /\ pOutcome' = Response(500, [error |-> out.message])
                /\ UNCHANGED pRoute
           ELSE /\ pRoute' = out.value
                /\ pOutcome' = Response(200,
                    [locations |-> pLocations,
                     route |-> [type |-> "Feature", properties |-> <<>>,
                                geometry |-> out.value.geometry],
                     distance |-> MilesOf(out.value.distance),
                     duration |-> RoundMinutes(out.value.duration)])
    /\ pPc' = "done"
    /\ UNCHANGED <<pFlow, pInput, pGeoState, pGeoOut, pOrder, pLocations, pDirections,
                   capturedRouteData>>

\* the request is answered; the next query starts with the capture cleared
PlanReset ==
    /\ UNCHANGED notPlanVars
    /\ pPc = "done"
    /\ pPc' = "idle"
    /\ pFlow' = "none"
    /\ pInput' = <<>>
    /\ pGeoState' = <<>>
    /\ pGeoOut' = <<>>
    /\ pOrder' = <<>>
    /\ pLocations' = <<>>
    /\ pDirections' = <<>>
    /\ pRoute' = NoValue
    /\ pOutcome' = NoValue
    /\ capturedRouteData' = NoValue

NextPlan ==
    \/ PlanRouteExecute
    \/ ToolGeocodeSettles
    \/ ToolRouteSettles
    \/ PlanHandlerPOST
    \/ HandlerGeocodeSettles
    \/ HandlerRouteSettles
    \/ PlanReset

-----------------------------------------------------------------------------
(* Natural-language queries: POST /api/query, processNaturalLanguageQuery,  *)
(* the agent's tool executions and the page's handleSubmitQuery (SpecAgent) *)

QueryTexts == {"", "  ", "coffee near the White House"}
AgentTexts == {"", "Here is what I found"}

\* query.trim()
Trim(q) == IF q \in {"", "  "} THEN "" ELSE q

\* a value of a module-level capture variable holding an array; NoValue is undefined
Captured(results) == [kind |-> "value", value |-> results]

\* the locations the agent passes to plan-route, and what it passes to search-category
AgentPlanLocations == <<Landmark(1), Landmark(2)>>
AgentNear == "White House"
AgentCategory == "coffee"

AgentCategoryAnswers ==
    { [isError |-> TRUE, content |-> <<[type |-> "text", text |-> "rate limited"]>>],
      [isError |-> FALSE, content |-> <<>>, structuredContent |-> [features |-> <<>>]],
      [isError |-> FALSE, content |-> <<>>, structuredContent |-> [features |->
          <<[properties |-> [name |-> "White House", full_address |-> "1600 Pennsylvania Ave NW"],
             geometry |-> [coordinates |-> <<-77, 38>>]]>>]],
      [isError |-> FALSE, content |-> <<>>, structuredContent |-> [features |->
          <<[properties |-> [name |-> "", place_formatted |-> "Washington, DC"],
             geometry |-> [coordinates |-> <<-76, 39>>]],
            [properties |-> [full_address |-> "East Capitol St NE"],
             geometry |-> [coordinates |-> <<-77, 38>>]]>>]],
      TransportFailure }

CategoryOutcome(variant, category, answer) ==
    IF Has(answer, "transport") THEN Throw("Error", <<"connect failed">>)
    ELSE IF variant = "hosted" THEN categorySearch(category, answer)
    ELSE categorySearchLocal(category, answer)

\* search-category execute({ category, near }): geocode `near`, search, capture, return
\* [out: what execute returns or throws, captured: whether it assigned the capture]
SearchCategoryExecute(category, near, nearAnswer, categoryAnswer) ==
    LET nearLocation == GeocodeOutcome("hosted", near, nearAnswer)
        results == CategoryOutcome("hosted", category, categoryAnswer)
    IN IF nearLocation.kind = "throw" THEN [out |-> nearLocation, captured |-> FALSE]
       ELSE IF results.kind = "throw" THEN [out |-> results, captured |-> FALSE]
       ELSE [out |-> Return([count |-> Len(results.value), results |-> results.value]),
             captured |-> TRUE]

\* plan-route execute({ locations }) as one step (its interleavings are SpecPlan's)
PlanRouteExecuteAll(locations, geoAnswers, directionsAnswer) ==
    LET outs == [i \in 1..Len(locations) |-> GeocodeOutcome("hosted", locations[i], geoAnswers[i])]
        failed == {i \in 1..Len(locations) : outs[i].kind = "throw"}
        geocoded == PromiseAllValues(outs, [i \in 1..Len(locations) |-> i])
        route == RouteOutcome("hosted", CoordinatesOf(geocoded), directionsAnswer)
    IN IF failed # {} THEN [out |-> outs[CHOOSE i \in failed : TRUE], captured |-> FALSE]
       ELSE IF route.kind = "throw" THEN [out |-> route, captured |-> FALSE]
       ELSE [out |-> Return([distance |-> RouteDataOf(geocoded, route.value).distance,
                             duration |-> RouteDataOf(geocoded, route.value).duration]),
             captured |-> TRUE,
             routeData |-> RouteDataOf(geocoded, route.value)]

ResponseType_SearchWins(searchCaptured, routeCaptured) ==
    IF searchCaptured # NoValue THEN "search_results"
    ELSE IF routeCaptured # NoValue THEN "route"
    ELSE "text"

\* let type = 'text'; if (capturedSearchResults) type = 'search_results';
\* if (capturedRouteData) type = 'route';
ResponseType(searchCaptured, routeCaptured) ==
    IF routeCaptured # NoValue THEN "route"
    ELSE IF searchCaptured # NoValue THEN "search_results"
    ELSE "text"

\* the object processNaturalLanguageQuery returns
Envelope(searchCaptured, routeCaptured, text) ==
    [type |-> ResponseType(searchCaptured, routeCaptured),
     searchResults |-> searchCaptured,
     routeData |-> routeCaptured,
     text |-> Or(text, "No response")]

PageShows_EveryPayload(data, shown) ==
    [searchResults |-> IF data.searchResults # NoValue
                       THEN data.searchResults.value ELSE shown.searchResults,
     routeData |-> IF data.routeData # NoValue THEN data.routeData ELSE shown.routeData]

\* if (data.type === 'search_results' && data.searchResults) setSearchResults(...)
\* else if (data.type === 'route' && data.routeData) setRouteData(...)
PageShows(data, shown) ==
    IF data.type = "search_results" /\ data.searchResults # NoValue
    THEN [searchResults |-> data.searchResults.value, routeData |-> shown.routeData]
    ELSE IF data.type = "route" /\ data.routeData # NoValue
    THEN [searchResults |-> shown.searchResults, routeData |-> data.routeData]
    ELSE shown

\* the query input's onChange (the input is rendered for a logged-in user and is
\* disabled while loading)
TypeQuery ==
    /\ UNCHANGED <<notAgentVars, agentVars, capturedRouteData>>
    /\ accessToken # Null
    /\ ~loading
    /\ \E q \in QueryTexts : q # query /\ query' = q
    /\ UNCHANGED <<accessToken, loading, error, aiResponse, routeData, searchResults>>

\* handleSubmitQuery up to its fetch('/api/query')
SubmitQuery ==
    /\ UNCHANGED <<notAgentVars, capturedRouteData, capturedSearchResults>>
    /\ aPc = "idle"
    /\ Trim(query) # ""
    /\ accessToken # Null
    /\ loading' = TRUE
    /\ error' = Null
    /\ aiResponse' = Null
    /\ routeData' = NoValue
    /\ searchResults' = <<>>
    /\ aRequest' = [from |-> "page", body |-> [query |-> query, accessToken |-> accessToken]]
    /\ aPc' = "posted"
    /\ UNCHANGED <<accessToken, query, aToolRuns, aCapturedBy, aLastCapture, aResponse>>

\* a POST /api/query from another client, with any body
ApiRequest ==
    /\ UNCHANGED <<notAgentVars, pageVars, capturedRouteData, capturedSearchResults>>
    /\ aPc = "idle"
    /\ \E q \in {Undefined, "", "coffee near the White House"}, token \in Tokens \cup {Undefined} :
        aRequest' = [from |-> "api", body |-> [query |-> q, accessToken |-> token]]
    /\ aPc' = "posted"
    /\ UNCHANGED <<aToolRuns, aCapturedBy, aLastCapture, aResponse>>

ClearedCapture_KeepsEarlier(held) == held

\* capturedSearchResults = undefined; capturedRouteData = undefined;
ClearedCapture(held) == NoValue

\* POST /api/query: the checks, then processNaturalLanguageQuery clears the captures
QueryHandlerPOST ==
    /\ UNCHANGED <<notAgentVars, pageVars>>
    /\ aPc = "posted"
    /\ aToolRuns' = 0
    /\ aCapturedBy' = {}
    /\ aLastCapture' = "none"
    /\ IF RequiredFieldsStatus(aRequest.body.query, aRequest.body.accessToken) = 400
       THEN /\ aResponse' = Response(400, [error |-> "Query is required"])
            /\ aPc' = "responded"
            /\ UNCHANGED <<capturedSearchResults, capturedRouteData>>
       ELSE IF RequiredFieldsStatus(aRequest.body.query, aRequest.body.accessToken) = 401
       THEN /\ aResponse' = Response(401, [error |-> "Access token is required"])
            /\ aPc' = "responded"
            /\ UNCHANGED <<capturedSearchResults, capturedRouteData>>
       ELSE /\ capturedSearchResults' = ClearedCapture(capturedSearchResults)
            /\ capturedRouteData' = ClearedCapture(capturedRouteData)
            /\ aPc' = "generating"
            /\ UNCHANGED aResponse
    /\ UNCHANGED aRequest

\* the agent runs search-location: geocodeLocation, nothing captured
AgentRunsSearchLocation ==
    /\ UNCHANGED <<notAgentVars, pageVars, capturedRouteData, capturedSearchResults>>
    /\ aPc = "generating"
    /\ aToolRuns < MaxToolRuns
    /\ \E answer \in PlanGeocodeAnswers :
        GeocodeOutcome("hosted", AgentNear, answer).kind \in {"return", "throw"}
    /\ aToolRuns' = aToolRuns + 1
    /\ UNCHANGED <<aPc, aRequest, aCapturedBy, aLastCapture, aResponse>>

\* the agent runs search-category
AgentRunsSearchCategory ==
    /\ UNCHANGED <<notAgentVars, pageVars, capturedRouteData>>
    /\ aPc = "generating"
    /\ aToolRuns < MaxToolRuns
    /\ \E nearAnswer \in PlanGeocodeAnswers, categoryAnswer \in AgentCategoryAnswers :
        LET run == SearchCategoryExecute(AgentCategory, AgentNear, nearAnswer, categoryAnswer)
        IN IF run.captured
           THEN /\ capturedSearchResults' = Captured(run.out.value.results)
                /\ aCapturedBy' = aCapturedBy \cup {"search-category"}
                /\ aLastCapture' = "search-category"
           ELSE UNCHANGED <<capturedSearchResults, aCapturedBy, aLastCapture>>
    /\ aToolRuns' = aToolRuns + 1
    /\ UNCHANGED <<aPc, aRequest, aResponse>>

\* the agent runs plan-route
AgentRunsPlanRoute ==
    /\ UNCHANGED <<notAgentVars, pageVars, capturedSearchResults>>
    /\ aPc = "generating"
    /\ aToolRuns < MaxToolRuns
    /\ \E geoAnswers \in [1..Len(AgentPlanLocations) -> PlanGeocodeAnswers],
          directionsAnswer \in PlanDirectionsAnswers :
        LET run == PlanRouteExecuteAll(AgentPlanLocations, geoAnswers, directionsAnswer)
        IN IF run.captured
           THEN /\ capturedRouteData' = run.routeData
                /\ aCapturedBy' = aCapturedBy \cup {"plan-route"}
                /\ aLastCapture' = "plan-route"
           ELSE UNCHANGED <<capturedRouteData, aCapturedBy, aLastCapture>>
    /\ aToolRuns' = aToolRuns + 1
    /\ UNCHANGED <<aPc, aRequest, aResponse>>

\* await dcAgent.generate(query) resolves: the type is determined, the envelope
\* returned, and the handler answers NextResponse.json(response)
AgentGenerateReturns ==
    /\ UNCHANGED <<notAgentVars, pageVars, capturedRouteData, capturedSearchResults>>
    /\ aPc = "generating"
    /\ \E text \in AgentTexts :
        aResponse' = Response(200, Envelope(capturedSearchResults, capturedRouteData, text))
    /\ aPc' = "responded"
    /\ UNCHANGED <<aRequest, aToolRuns, aCapturedBy, aLastCapture>>

\* await dcAgent.generate(query) rejects: the handler's catch answers 500
AgentGenerateFails ==
    /\ UNCHANGED <<notAgentVars, pageVars, capturedRouteData, capturedSearchResults>>
    /\ aPc = "generating"
    /\ aResponse' = Response(500, [error |-> "model unavailable"])
    /\ aPc' = "responded"
    /\ UNCHANGED <<aRequest, aToolRuns, aCapturedBy, aLastCapture>>

\* handleSubmitQuery after its fetch resolved
PageReceives ==
    /\ UNCHANGED <<notAgentVars, capturedRouteData, capturedSearchResults>>
    /\ aPc = "responded"
    /\ aRequest.from = "page"
    /\ IF aResponse.status # 200
       THEN /\ error' = "Failed to process query"
            /\ UNCHANGED <<aiResponse, routeData, searchResults>>
       ELSE /\ aiResponse' = aResponse.body.text
            /\ searchResults' =
                   PageShows(aResponse.body, [searchResults |-> searchResults,
                                              routeData |-> routeData]).searchResults
            /\ routeData' =
                   PageShows(aResponse.body, [searchResults |-> searchResults,
                                              routeData |-> routeData]).routeData
            /\ UNCHANGED error
    /\ loading' = FALSE
    /\ aPc' = "done"
    /\ UNCHANGED <<accessToken, query, aRequest, aToolRuns, aCapturedBy, aLastCapture, aResponse>>

\* the other client has its response
ApiReceives ==
    /\ UNCHANGED <<notAgentVars, pageVars, capturedRouteData, capturedSearchResults>>
    /\ aPc = "responded"
    /\ aRequest.from = "api"
    /\ aPc' = "done"
    /\ UNCHANGED <<aRequest, aToolRuns, aCapturedBy, aLastCapture, aResponse>>

\* handleSubmitQuery's fetch rejects (the request never reached the handler)
FetchFails ==
    /\ UNCHANGED <<notAgentVars, capturedRouteData, capturedSearchResults>>
    /\ aPc = "posted"
    /\ aRequest.from = "page"
    /\ error' = "Failed to fetch"
    /\ loading' = FALSE
    /\ aPc' = "done"
    /\ UNCHANGED <<accessToken, query, aiResponse, routeData, searchResults,
                   aRequest, aToolRuns, aCapturedBy, aLastCapture, aResponse>>

\* the exchange is over; the captures and the page keep what they hold
AgentReset ==
    /\ UNCHANGED <<notAgentVars, pageVars, capturedRouteData, capturedSearchResults>>
    /\ aPc = "done"
    /\ aPc' = "idle"
    /\ aRequest' = NoValue
    /\ aResponse' = NoValue
    /\ aToolRuns' = 0
    /\ aCapturedBy' = {}
    /\ aLastCapture' = "none"

NextAgent ==
    \/ TypeQuery
    \/ SubmitQuery
    \/ ApiRequest
    \/ QueryHandlerPOST
    \/ AgentRunsSearchLocation
    \/ AgentRunsSearchCategory
    \/ AgentRunsPlanRoute
    \/ AgentGenerateReturns
    \/ AgentGenerateFails
    \/ PageReceives
    \/ ApiReceives
    \/ FetchFails
    \/ AgentReset

-----------------------------------------------------------------------------
(* The OAuth flow: handleLogin, GET /auth/callback, the page's mount effect, *)
(* exchangeCodeForToken and handleLogout (SpecOAuth)                         *)

OAuthStates == {"s1", "s2"}
OAuthCodes == {"c1"}
OAuthErrors == {"access_denied"}
IssuedTokens == {"tokA", "tokB"}
RegisteredIds == <<"reg1", "reg2">>

RegisteredId(n) == RegisteredIds[((n - 1) % Len(RegisteredIds)) + 1]

\* OAUTH_CONFIG.redirectUri
RedirectUri == "http://localhost:3000/auth/callback"

\* a string is truthy
Truthy(v) == v \notin {Null, Undefined, ""}

\* the home page's URL: fragment parameters code, state, access_token and the
\* search parameter error, Null when absent
HomeUrlWith(code, state, token, err) ==
    [page |-> "home", code |-> code, state |-> state, access_token |-> token, error |-> err]

HomeUrl == HomeUrlWith(Null, Null, Null, Null)

CallbackRedirect_WithToken(code, state, err) ==
    IF Truthy(err) THEN HomeUrlWith(Null, Null, Null, err)
    ELSE IF ~Truthy(code) \/ ~Truthy(state) THEN HomeUrlWith(Null, Null, Null, "missing_parameters")
    ELSE HomeUrlWith(Null, Null, "tokA", Null)

\* GET /auth/callback?code=..&state=..&error=..: the redirect it answers with
CallbackRedirect(code, state, err) ==
    IF Truthy(err) THEN HomeUrlWith(Null, Null, Null, err)
    ELSE IF ~Truthy(code) \/ ~Truthy(state) THEN HomeUrlWith(Null, Null, Null, "missing_parameters")
    ELSE HomeUrlWith(code, state, Null, Null)

\* getAuthorizationUrl(state, clientId)
getAuthorizationUrl(state, clientId) ==
    [page |-> "authServer",
     response_type |-> "code",
     client_id |-> Or(clientId, envClientId),
     redirect_uri |-> RedirectUri,
     state |-> state]

\* credentials?.client_id || <configured client id> || ''
ClientIdOf(credentials) ==
    IF credentials # NoValue THEN Or(credentials.client_id, envClientId) ELSE envClientId

TokenRequestParams_NoSecret(code, credentials) ==
    [grant_type |-> "authorization_code",
     code |-> code,
     client_id |-> ClientIdOf(credentials),
     redirect_uri |-> RedirectUri,
     client_secret |-> Undefined]

\* the body exchangeCodeForToken POSTs: client_secret only when stored
TokenRequestParams(code, credentials) ==
    [grant_type |-> "authorization_code",
     code |-> code,
     client_id |-> ClientIdOf(credentials),
     redirect_uri |-> RedirectUri,
     client_secret |-> IF credentials # NoValue THEN credentials.client_secret ELSE Undefined]

\* a fresh document: the component's state is its initial state
FreshPage ==
    /\ accessToken' = Null
    /\ query' = ""
    /\ loading' = FALSE
    /\ error' = Null
    /\ aiResponse' = Null
    /\ routeData' = NoValue
    /\ searchResults' = <<>>

\* handleLogin from `const state = generateState()` on: store the state, leave for
\* the authorization server
StartAuthorization(credentials) ==
    \E state \in OAuthStates :
        /\ oauthState' = state
        /\ location' = getAuthorizationUrl(state, ClientIdOf(credentials))
        /\ oPc' = "away"
        /\ exPending' = NoValue

\* the mount effect (useEffect(..., [])) of a freshly loaded page
PageMount ==
    /\ UNCHANGED notPageVars
    /\ oPc = "loading"
    /\ oPc' = "mounted"
    /\ IF tokenStorage # Null
       THEN /\ accessToken' = tokenStorage
            /\ UNCHANGED <<loading, error, tokenStorage, location, exPending, tokenRequests,
                           exchangeCount, exchangeLog>>
       ELSE /\ IF Truthy(location.access_token)
               THEN /\ tokenStorage' = location.access_token
                    /\ accessToken' = location.access_token
                    /\ UNCHANGED <<loading, exPending, tokenRequests, exchangeCount, exchangeLog>>
               ELSE IF Truthy(location.code) /\ Truthy(location.state)
               THEN /\ loading' = TRUE
                    /\ exchangeCount' = exchangeCount + 1
                    /\ exchangeLog' = exchangeLog \cup
                           {[code |-> location.code, state |-> location.state,
                             stored |-> oauthState]}
                    /\ IF ~Truthy(ClientIdOf(clientStorage))
                       THEN /\ exPending' = Throw("Error", <<"No client ID available for token exchange">>)
                            /\ UNCHANGED tokenRequests
                       ELSE /\ exPending' = [kind |-> "awaiting"]
                            /\ tokenRequests' = Append(tokenRequests,
                                   [call |-> exchangeCount + 1,
                                    params |-> TokenRequestParams(location.code, clientStorage)])
                    /\ UNCHANGED <<tokenStorage, accessToken>>
               ELSE UNCHANGED <<tokenStorage, accessToken, loading, exPending, tokenRequests,
                                exchangeCount, exchangeLog>>
            /\ IF Truthy(location.error)
               THEN error' = <<"OAuth error: ", location.error>>
               ELSE UNCHANGED error
            /\ location' = IF Truthy(location.access_token) \/ Truthy(location.error)
                           THEN HomeUrl ELSE location
    /\ UNCHANGED <<query, aiResponse, routeData, searchResults, oauthState, clientStorage,
                   envClientId, regPending, regCount, exResponse, cbRequest>>

\* what the token endpoint answers: the token, or a non-success status with a body
TokenResponses ==
    {[ok |-> TRUE, body |-> [access_token |-> t]] : t \in IssuedTokens} \cup
    {[ok |-> FALSE, body |-> b] : b \in {"invalid_grant", "server_error"}}

ExchangeResult_GenericError(response) ==
    IF ~response.ok
    THEN Throw("Error", <<"Failed to exchange code for token">>)
    ELSE Return(response.body)

\* exchangeCodeForToken after its fetch: the raw body in the error, or the parsed body
ExchangeResult(response) ==
    IF ~response.ok
    THEN Throw("Error", <<"Failed to exchange code for token: ", response.body>>)
    ELSE Return(response.body)

\* the token endpoint answers (or exchangeCodeForToken had thrown): .then / .catch / .finally
ExchangeSettles ==
    /\ UNCHANGED notOAuthVars
    /\ oPc = "mounted"
    /\ exPending # NoValue
    /\ IF exPending.kind = "throw"
       THEN /\ error' = <<"Token exchange failed: ">> \o exPending.message
            /\ exResponse' = NoValue
            /\ UNCHANGED <<tokenStorage, accessToken, location>>
       ELSE \E response \in TokenResponses :
            /\ exResponse' = response
            /\ LET out == ExchangeResult(response)
               IN IF out.kind = "return"
                  THEN /\ tokenStorage' = out.value.access_token
                       /\ accessToken' = out.value.access_token
                       /\ location' = HomeUrl
                       /\ UNCHANGED error
                  ELSE /\ error' = <<"Token exchange failed: ">> \o out.message
                       /\ UNCHANGED <<tokenStorage, accessToken, location>>
    /\ loading' = FALSE
    /\ exPending' = NoValue
    /\ UNCHANGED <<oauthState, clientStorage, envClientId, oPc, regPending, regCount,
                   tokenRequests, exchangeCount, exchangeLog, cbRequest>>

NeedsRegistration_IgnoresStored(credentials) == ~Truthy(envClientId)

\* !credentials && !process.env.NEXT_PUBLIC_MAPBOX_OAUTH_CLIENT_ID
NeedsRegistration(credentials) == credentials = NoValue /\ ~Truthy(envClientId)

\* handleLogin up to its first await (registration), or to the redirect
HandleLogin ==
    /\ UNCHANGED notOAuthVars
    /\ oPc = "mounted"
    /\ accessToken = Null
    /\ loading' = TRUE
    /\ IF NeedsRegistration(clientStorage)
       THEN /\ regCount < MaxRegistrations
            /\ error' = "Registering OAuth client..."
            /\ regPending' = regPending + 1
            /\ regCount' = regCount + 1
            /\ UNCHANGED <<oauthState, location, oPc, exPending>>
       ELSE /\ error' = Null
            /\ StartAuthorization(clientStorage)
            /\ UNCHANGED <<regPending, regCount>>
    /\ UNCHANGED <<accessToken, tokenStorage, clientStorage, envClientId, tokenRequests,
                   exchangeCount, exchangeLog, exResponse, cbRequest>>

\* await registerOAuthClient(...) settles in one of the handleLogin calls awaiting it:
\* credentials stored and the redirect, or the catch. Assigning location.href only
\* starts the navigation: the document, and the other calls awaiting a registration,
\* live on until the next document is loaded, so oPc = "away" still runs them.
RegistrationSettles ==
    /\ UNCHANGED notOAuthVars
    /\ oPc \in {"mounted", "away"}
    /\ regPending > 0
    /\ regPending' = regPending - 1
    /\ \E ok \in BOOLEAN :
        IF ok
        THEN LET credentials == [client_id |-> RegisteredId(regCount - regPending + 1),
                                 client_secret |-> "secret"]
             IN /\ clientStorage' = credentials
                /\ StartAuthorization(credentials)
                /\ UNCHANGED <<error, loading>>
        ELSE /\ error' = "Failed to register OAuth client: server_error"
             /\ loading' = FALSE
             /\ UNCHANGED <<clientStorage, oauthState, location, oPc, exPending>>
    /\ UNCHANGED <<accessToken, tokenStorage, envClientId, regCount, tokenRequests,
                   exchangeCount, exchangeLog, exResponse, cbRequest>>

\* the browser requests /auth/callback with any parameters (the authorization
\* server's redirect, or a link someone else made) and follows the handler's redirect
CallbackGET ==
    /\ UNCHANGED notPageVars
    /\ oPc # "loading"
    /\ exchangeCount < MaxExchanges
    /\ \E code \in OAuthCodes \cup {Null}, state \in OAuthStates \cup {Null},
          err \in OAuthErrors \cup {Null} :
        /\ cbRequest' = [code |-> code, state |-> state, error |-> err]
        /\ location' = CallbackRedirect(code, state, err)
    /\ oPc' = "loading"
    /\ FreshPage
    /\ regPending' = 0
    /\ exPending' = NoValue
    /\ UNCHANGED <<tokenStorage, oauthState, clientStorage, envClientId, regCount,
                   tokenRequests, exchangeCount, exchangeLog, exResponse>>

\* the browser opens the home page, possibly with a token in the fragment
VisitHome ==
    /\ UNCHANGED notPageVars
    /\ oPc # "loading"
    /\ \E token \in IssuedTokens \cup {Null} :
        location' = HomeUrlWith(Null, Null, token, Null)
    /\ cbRequest' = NoValue
    /\ oPc' = "loading"
    /\ FreshPage
    /\ regPending' = 0
    /\ exPending' = NoValue
    /\ UNCHANGED <<tokenStorage, oauthState, clientStorage, envClientId, regCount,
                   tokenRequests, exchangeCount, exchangeLog, exResponse>>

HandleLogout_KeepsStoredToken ==
    /\ UNCHANGED notPageVars
    /\ oPc = "mounted"
    /\ accessToken # Null
    /\ accessToken' = Null
    /\ query' = ""
    /\ aiResponse' = Null
    /\ routeData' = NoValue
    /\ searchResults' = <<>>
    /\ error' = Null
    /\ UNCHANGED <<tokenStorage, loading, oauthState, clientStorage, envClientId, location, oPc,
                   regPending, regCount, exPending, tokenRequests, exchangeCount, exchangeLog,
                   exResponse, cbRequest>>

\* handleLogout
HandleLogout ==
    /\ UNCHANGED notPageVars
    /\ oPc = "mounted"
    /\ accessToken # Null
    /\ tokenStorage' = Null
    /\ accessToken' = Null
    /\ query' = ""
    /\ aiResponse' = Null
    /\ routeData' = NoValue
    /\ searchResults' = <<>>
    /\ error' = Null
    /\ UNCHANGED <<loading, oauthState, clientStorage, envClientId, location, oPc, regPending,
                   regCount, exPending, tokenRequests, exchangeCount, exchangeLog,
                   exResponse, cbRequest>>

NextOAuth ==
    \/ PageMount
    \/ ExchangeSettles
    \/ HandleLogin
    \/ RegistrationSettles
    \/ CallbackGET
    \/ VisitHome
    \/ HandleLogout

-----------------------------------------------------------------------------
(* getAuthorizationUrl called on its own, with or without a client id (SpecAuthUrl) *)

\* the optional clientId argument: omitted, empty, or an id
ClientIdArguments == {Undefined, "", "reg1", "env-client"}

\* getAuthorizationUrl(state, clientId) is called and returns
GetAuthorizationUrlCall ==
    /\ UNCHANGED notCallVars
    /\ Len(callLog) < MaxCalls
    /\ \E state \in OAuthStates, clientId \in ClientIdArguments :
        callLog' = Append(callLog, [state |-> state, clientId |-> clientId,
                                    out |-> Return(getAuthorizationUrl(state, clientId))])

\* the caller drops what it has collected
CallLogReset ==
    /\ UNCHANGED notCallVars
    /\ Len(callLog) = MaxCalls
    /\ callLog' = <<>>

NextAuthUrl ==
    \/ GetAuthorizationUrlCall
    \/ CallLogReset

-----------------------------------------------------------------------------
(* Hosted tool calls that overlap, and the HTTP requests their transports *)
(* send through customFetch (SpecFetch)                                    *)

BearerTokens == {"tokA", "tokB"}

IdleCall == [pc |-> "idle", accessToken |-> Null, sent |-> <<>>]

\* the headers the transport passes in init: none, its own, or an Authorization
\* header already set, in either spelling; a list of <<name, value>> pairs
InitHeaders ==
    { <<>>,
      << <<"Content-Type", <<"application/json">> >> >>,
      << <<"Authorization", <<"Bearer ", "stale">> >>, <<"Accept", <<"text/event-stream">> >> >>,
      << <<"authorization", <<"Bearer ", "stale">> >> >> }

\* header names are case-insensitive: Headers keeps them in lower case
LowerCase(name) ==
    CASE name = "Authorization" -> "authorization"
      [] name = "Content-Type" -> "content-type"
      [] name = "Accept" -> "accept"
      [] OTHER -> name

\* new Headers(init?.headers)
NewHeaders(pairs) == [i \in 1..Len(pairs) |-> <<LowerCase(pairs[i][1]), pairs[i][2]>>]

RECURSIVE WithoutHeader(_, _)
WithoutHeader(headers, name) ==
    IF headers = <<>> THEN <<>>
    ELSE IF headers[1][1] = LowerCase(name)
    THEN WithoutHeader(Tail(headers), name)
    ELSE <<headers[1]>> \o WithoutHeader(Tail(headers), name)

\* headers.set(name, value): the value replaces every value the name had
HeadersSet(headers, name, value) ==
    Append(WithoutHeader(headers, name), <<LowerCase(name), value>>)

CapturedToken_ModuleLevel(own, latest) == latest

\* the accessToken customFetch reads: the parameter of the getMCPClient call that
\* created it, not anything shared between calls
CapturedToken(own, latest) == own

\* customFetch(input, init): the request that goes out
customFetch(token, kind, initHeaders) ==
    [method |-> kind,
     headers |-> HeadersSet(NewHeaders(initHeaders), "Authorization", <<"Bearer ", token>>)]

\* callMCPTool(toolName, toolArgs, accessToken): getMCPClient builds customFetch,
\* the transport and the client
FetchBegin(c) ==
    /\ fCalls[c].pc = "idle"
    /\ \E token \in BearerTokens :
        /\ fCalls' = [fCalls EXCEPT ![c] = [pc |-> "connecting", accessToken |-> token,
                                            sent |-> <<>>]]
        /\ fLatest' = token

\* client.connect(transport): the initialize request goes out through customFetch
FetchConnect(c) ==
    /\ fCalls[c].pc = "connecting"
    /\ \E initHeaders \in InitHeaders, ok \in BOOLEAN :
        fCalls' = [fCalls EXCEPT
            ![c].sent = Append(@, customFetch(CapturedToken(fCalls[c].accessToken, fLatest),
                                              "initialize", initHeaders)),
            ![c].pc = IF ok THEN "connected" ELSE "done"]
    /\ UNCHANGED fLatest

\* client.request(request, CallToolResultSchema): the tools/call request goes out
FetchRequest(c) ==
    /\ fCalls[c].pc = "connected"
    /\ \E initHeaders \in InitHeaders :
        fCalls' = [fCalls EXCEPT
            ![c].sent = Append(@, customFetch(CapturedToken(fCalls[c].accessToken, fLatest),
                                              "tools/call", initHeaders)),
            ![c].pc = "done"]
    /\ UNCHANGED fLatest

\* the call has returned or thrown; its client is dropped
FetchEnd(c) ==
    /\ fCalls[c].pc = "done"
    /\ fCalls' = [fCalls EXCEPT ![c] = IdleCall]
    /\ UNCHANGED fLatest

HostedCallBegins == UNCHANGED notFetchVars /\ \E c \in 1..MaxOverlap : FetchBegin(c)
HostedCallConnects == UNCHANGED notFetchVars /\ \E c \in 1..MaxOverlap : FetchConnect(c)
HostedCallRequests == UNCHANGED notFetchVars /\ \E c \in 1..MaxOverlap : FetchRequest(c)
HostedCallEnds == UNCHANGED notFetchVars /\ \E c \in 1..MaxOverlap : FetchEnd(c)

NextFetch ==
    \/ HostedCallBegins
    \/ HostedCallConnects
    \/ HostedCallRequests
    \/ HostedCallEnds

-----------------------------------------------------------------------------
(* The two handlers of the OAuth variant side by side (SpecFacade) *)

NextFacade ==
    \/ CategoryHandlerPOST
    \/ ConnectDone
    \/ ToolAnswers
    \/ RequestFails
    \/ ToolReset
    \/ ApiRequest
    \/ QueryHandlerPOST
    \/ AgentGenerateReturns
    \/ AgentGenerateFails
    \/ ApiReceives
    \/ AgentReset

-----------------------------------------------------------------------------
(* Overlapping processNaturalLanguageQuery calls in one server process: the   *)
(* capture variables are the module's, shared by every call (SpecRace)        *)

IdleQuery ==
    [pc |-> "idle", captured |-> {}, overlapped |-> FALSE, response |-> NoValue,
     from |-> [search |-> 0, route |-> 0]]

\* what the tools of the overlapping calls are answered: a failure or a result
RaceGeocodeAnswers ==
    {a \in PlanGeocodeAnswers :
        IsError(a) \/ (~NoFeatures(a) /\ Has(a.structuredContent.features[1].properties, "name"))}
RaceCategoryAnswers ==
    {a \in AgentCategoryAnswers :
        IsError(a) \/ (Has(a, "structuredContent") /\ Len(a.structuredContent.features) = 1)}
RaceDirectionsAnswers ==
    {a \in PlanDirectionsAnswers :
        IsError(a) \/ (~NoRoutes(a) /\ a.structuredContent.routes[1].geometry = "line1")}

\* result.text of the overlapping calls
RaceText == "Here is what I found"

\* the calls awaiting dcAgent.generate other than c
OthersInFlight(c) == {d \in (1..MaxOverlap) \ {c} : rCalls[d].pc = "generating"}

\* processNaturalLanguageQuery up to `await dcAgent.generate(query)`: the captures
\* are cleared, whoever assigned them
QueryBegin(c) ==
    /\ rCalls[c].pc = "idle"
    /\ capturedSearchResults' = ClearedCapture(capturedSearchResults)
    /\ capturedRouteData' = ClearedCapture(capturedRouteData)
    /\ rWriter' = [search |-> IF ClearedCapture(capturedSearchResults) = NoValue
                              THEN 0 ELSE rWriter.search,
                   route |-> IF ClearedCapture(capturedRouteData) = NoValue
                             THEN 0 ELSE rWriter.route]
    /\ rCalls' = [d \in 1..MaxOverlap |->
                    IF d = c
                    THEN [IdleQuery EXCEPT !.pc = "generating",
                                           !.overlapped = OthersInFlight(c) # {}]
                    ELSE IF rCalls[d].pc = "generating"
                    THEN [rCalls[d] EXCEPT !.overlapped = TRUE]
                    ELSE rCalls[d]]

\* the agent of call c runs search-category: `capturedSearchResults = results`
QueryRunsSearchCategory(c) ==
    /\ rCalls[c].pc = "generating"
    /\ \E nearAnswer \in RaceGeocodeAnswers, categoryAnswer \in RaceCategoryAnswers :
        LET run == SearchCategoryExecute(AgentCategory, AgentNear, nearAnswer, categoryAnswer)
        IN IF run.captured
           THEN /\ capturedSearchResults' = Captured(run.out.value.results)
                /\ rWriter' = [rWriter EXCEPT !.search = c]
                /\ rCalls' = [rCalls EXCEPT ![c].captured = @ \cup {"search-category"}]
           ELSE UNCHANGED <<capturedSearchResults, rWriter, rCalls>>
    /\ UNCHANGED capturedRouteData

\* the agent of call c runs plan-route: `capturedRouteData = {...}`
QueryRunsPlanRoute(c) ==
    /\ rCalls[c].pc = "generating"
    /\ \E geoAnswers \in [1..Len(AgentPlanLocations) -> RaceGeocodeAnswers],
          directionsAnswer \in RaceDirectionsAnswers :
        LET run == PlanRouteExecuteAll(AgentPlanLocations, geoAnswers, directionsAnswer)
        IN IF run.captured
           THEN /\ capturedRouteData' = run.routeData
                /\ rWriter' = [rWriter EXCEPT !.route = c]
                /\ rCalls' = [rCalls EXCEPT ![c].captured = @ \cup {"plan-route"}]
           ELSE UNCHANGED <<capturedRouteData, rWriter, rCalls>>
    /\ UNCHANGED capturedSearchResults

\* await dcAgent.generate(query) resolves in call c: the envelope is built from what
\* the capture variables hold now
QueryReturn(c) ==
    /\ rCalls[c].pc = "generating"
    /\ rCalls' = [rCalls EXCEPT
                    ![c].pc = "returned",
                    ![c].response = Envelope(capturedSearchResults, capturedRouteData, RaceText),
                    ![c].from = rWriter]
    /\ UNCHANGED <<capturedSearchResults, capturedRouteData, rWriter>>

\* the caller of call c has its response
QueryEnd(c) ==
    /\ rCalls[c].pc = "returned"
    /\ rCalls' = [rCalls EXCEPT ![c] = IdleQuery]
    /\ UNCHANGED <<capturedSearchResults, capturedRouteData, rWriter>>

QueryCallBegins == UNCHANGED notRaceVars /\ \E c \in 1..MaxOverlap : QueryBegin(c)
QueryCallRunsSearchCategory ==
    UNCHANGED notRaceVars /\ \E c \in 1..MaxOverlap : QueryRunsSearchCategory(c)
QueryCallRunsPlanRoute ==
    UNCHANGED notRaceVars /\ \E c \in 1..MaxOverlap : QueryRunsPlanRoute(c)
QueryCallReturns == UNCHANGED notRaceVars /\ \E c \in 1..MaxOverlap : QueryReturn(c)
QueryCallEnds == UNCHANGED notRaceVars /\ \E c \in 1..MaxOverlap : QueryEnd(c)

NextRace ==
    \/ QueryCallBegins
    \/ QueryCallRunsSearchCategory
    \/ QueryCallRunsPlanRoute
    \/ QueryCallReturns
    \/ QueryCallEnds

-----------------------------------------------------------------------------
(* Overlapping calls of the local variant's operations: getMCPClient and the  *)
(* module-level singleton (SpecLocal)                                         *)

IdleLocalCall == [pc |-> "idle", client |-> 0, handed |-> "none", sentWhile |-> "none"]

LocalCall == [variant |-> "local"]

\* getMCPClient() called by call c: the singleton if it is set, whatever became of
\* its connect; else a new transport and client, assigned before the connect is awaited
LocalGetClient(c) ==
    /\ lCalls[c].pc = "idle"
    /\ IF OpensConnection(LocalCall, mcpClient)
       THEN /\ lCreated' = lCreated + 1
            /\ mcpClient' = "created"
            /\ lConnect' = "pending"
            /\ lCalls' = [lCalls EXCEPT ![c].pc = "connecting", ![c].client = lCreated + 1]
       ELSE /\ lCalls' = [lCalls EXCEPT ![c].pc = "holding", ![c].client = lCreated,
                                        ![c].handed = lConnect]
            /\ UNCHANGED <<lCreated, mcpClient, lConnect>>

\* await mcpClient.connect(transport) settles in the call that created the client
LocalConnectSettles(c) ==
    /\ lCalls[c].pc = "connecting"
    /\ \E ok \in BOOLEAN :
        IF ok
        THEN /\ lConnect' = "ok"
             /\ mcpClient' = "connected"
             /\ lCalls' = [lCalls EXCEPT ![c].pc = "holding", ![c].handed = "ok"]
        ELSE /\ lConnect' = "failed"
             /\ lCalls' = [lCalls EXCEPT ![c].pc = "done"]
             /\ UNCHANGED mcpClient
    /\ UNCHANGED lCreated

\* client.request(request, CallToolResultSchema) in call c. On a connected client the
\* request is sent; on one whose connect failed it is rejected ('Not connected'); on
\* one whose connect is still in progress the SDK decides: sent or rejected
LocalRequest(c) ==
    /\ lCalls[c].pc = "holding"
    /\ \E sent \in BOOLEAN :
        /\ lConnect = "ok" => sent
        /\ lConnect = "failed" => ~sent
        /\ lCalls' = [lCalls EXCEPT ![c].pc = IF sent THEN "requesting" ELSE "done",
                                    ![c].sentWhile = IF sent THEN lConnect ELSE "none"]
    /\ UNCHANGED <<lCreated, mcpClient, lConnect>>

\* the request of call c is answered or fails
LocalAnswers(c) ==
    /\ lCalls[c].pc = "requesting"
    /\ lCalls' = [lCalls EXCEPT ![c].pc = "done"]
    /\ UNCHANGED <<lCreated, mcpClient, lConnect>>

\* the caller of call c has its outcome
LocalEnd(c) ==
    /\ lCalls[c].pc = "done"
    /\ lCalls' = [lCalls EXCEPT ![c] = IdleLocalCall]
    /\ UNCHANGED <<lCreated, mcpClient, lConnect>>

LocalCallGetsClient == UNCHANGED notLocalVars /\ \E c \in 1..MaxOverlap : LocalGetClient(c)
LocalCallConnects == UNCHANGED notLocalVars /\ \E c \in 1..MaxOverlap : LocalConnectSettles(c)
LocalCallRequests == UNCHANGED notLocalVars /\ \E c \in 1..MaxOverlap : LocalRequest(c)
LocalCallAnswered == UNCHANGED notLocalVars /\ \E c \in 1..MaxOverlap : LocalAnswers(c)
LocalCallEnds == UNCHANGED notLocalVars /\ \E c \in 1..MaxOverlap : LocalEnd(c)

NextLocal ==
    \/ LocalCallGetsClient
    \/ LocalCallConnects
    \/ LocalCallRequests
    \/ LocalCallAnswered
    \/ LocalCallEnds

-----------------------------------------------------------------------------
(* A logged-in page: queries and the Logout button (SpecSession) *)

NextSession ==
    \/ TypeQuery
    \/ SubmitQuery
    \/ QueryHandlerPOST
    \/ AgentRunsSearchLocation
    \/ AgentRunsSearchCategory
    \/ AgentRunsPlanRoute
    \/ AgentGenerateReturns
    \/ AgentGenerateFails
    \/ PageReceives
    \/ FetchFails
    \/ AgentReset
    \/ HandleLogout

-----------------------------------------------------------------------------
(* GET /auth/callback on its own, its URLs written out: a string is the       *)
(* sequence of its characters and of the literal pieces of its template       *)
(* (SpecCallback)                                                             *)

\* the characters of the parameter values: a letter, and characters that mean
\* something in a query string
ParamChars == {"a", "+", "&", " "}

\* searchParams.get(name): null, or the decoded value
Absent == [present |-> FALSE, value |-> <<>>]
Present(v) == [present |-> TRUE, value |-> v]

ParamValues == {Absent} \cup {Present(v) : v \in SeqUpTo(ParamChars, MaxParamLen)}
CallbackStates == {Absent, Present(<<>>), Present(<<"a">>), Present(<<"a", "a">>)}
CallbackErrors == {Absent, Present(<<>>), Present(<<"a">>), Present(<<"a", "&">>)}

\* if (p): neither null nor the empty string
NonEmpty(p) == p.present /\ p.value # <<>>

RECURSIVE encodeURIComponent(_)
\* encodeURIComponent(s): everything but unreserved characters is percent-encoded
encodeURIComponent(s) ==
    IF s = <<>> THEN <<>>
    ELSE (CASE Head(s) = "+" -> <<"%", "2", "B">>
            [] Head(s) = "&" -> <<"%", "2", "6">>
            [] Head(s) = " " -> <<"%", "2", "0">>
            [] OTHER -> <<Head(s)>>) \o encodeURIComponent(Tail(s))

RECURSIVE HashSetter(_)
\* redirectUrl.hash = s: the URL's fragment encoding, which of these characters
\* touches the space only
HashSetter(s) ==
    IF s = <<>> THEN <<>>
    ELSE (IF Head(s) = " " THEN <<"%", "2", "0">> ELSE <<Head(s)>>) \o HashSetter(Tail(s))

\* the URL NextResponse.redirect is given
RedirectTo(search, hash) == [path |-> "/", search |-> search, hash |-> hash]

\* GET(request): the redirect, from the three parameters of the request
GET(code, state, err) ==
    IF NonEmpty(err)
    THEN RedirectTo(<<"error", "=">> \o encodeURIComponent(err.value), <<>>)
    ELSE IF ~NonEmpty(code) \/ ~NonEmpty(state)
    THEN RedirectTo(<<"error", "=", "missing_parameters">>, <<>>)
    ELSE RedirectTo(<<>>, HashSetter(<<"code", "=">> \o code.value \o
                                     <<"&", "state", "=">> \o state.value))

\* the position of the first ch in s, 0 if there is none
IndexOf(s, ch) ==
    IF \E i \in 1..Len(s) : s[i] = ch
    THEN CHOOSE i \in 1..Len(s) : s[i] = ch /\ \A j \in 1..(i - 1) : s[j] # ch
    ELSE 0

RECURSIVE SplitOn(_, _)
\* s.split(ch)
SplitOn(s, ch) ==
    IF IndexOf(s, ch) = 0 THEN <<s>>
    ELSE <<SubSeq(s, 1, IndexOf(s, ch) - 1)>> \o SplitOn(SubSeq(s, IndexOf(s, ch) + 1, Len(s)), ch)

RECURSIVE FormDecode(_)
\* the decoding URLSearchParams applies to names and values: '+' is a space, %XX
\* is the character with that code
FormDecode(s) ==
    IF s = <<>> THEN <<>>
    ELSE IF Head(s) = "+" THEN <<" ">> \o FormDecode(Tail(s))
    ELSE IF Head(s) = "%" /\ Len(s) >= 3 /\
            <<s[2], s[3]>> \in {<<"2", "B">>, <<"2", "6">>, <<"2", "0">>}
    THEN (CASE s[3] = "B" -> <<"+">>
            [] s[3] = "6" -> <<"&">>
            [] OTHER -> <<" ">>) \o FormDecode(SubSeq(s, 4, Len(s)))
    ELSE <<Head(s)>> \o FormDecode(Tail(s))

\* new URLSearchParams(s).get(name), as the page reads its fragment and its search
URLSearchParamsGet(s, name) ==
    LET pieces == SplitOn(s, "&")
        NameOf(p) == FormDecode(IF IndexOf(p, "=") = 0 THEN p
                                ELSE SubSeq(p, 1, IndexOf(p, "=") - 1))
        ValueOf(p) == FormDecode(IF IndexOf(p, "=") = 0 THEN <<>>
                                 ELSE SubSeq(p, IndexOf(p, "=") + 1, Len(p)))
        hits == {i \in 1..Len(pieces) : pieces[i] # <<>> /\ NameOf(pieces[i]) = name}
    IN IF hits = {} THEN Absent
       ELSE Present(ValueOf(pieces[CHOOSE i \in hits : \A j \in hits : i <= j]))

\* a GET /auth/callback request is answered
CallbackAnswers ==
    /\ UNCHANGED notCallVars
    /\ callLog = <<>>
    /\ \E code \in ParamValues, state \in CallbackStates, err \in CallbackErrors :
        callLog' = <<[code |-> code, state |-> state, error |-> err,
                      out |-> GET(code, state, err)]>>

\* the browser has followed the redirect
CallbackFollowed ==
    /\ UNCHANGED notCallVars
    /\ callLog # <<>>
    /\ callLog' = <<>>

NextCallback ==
    \/ CallbackAnswers
    \/ CallbackFollowed

-----------------------------------------------------------------------------
(* Initial state and specifications *)

Init ==
    /\ tPc = "idle"
    /\ tCall = NoCall
    /\ tOpened = 0
    /\ tSent = <<>>
    /\ tResult = NoValue
    /\ tOutcome = NoValue
    /\ mcpClient = "null"
    /\ hStatus = 0
    /\ hBody = <<>>
    /\ pPc = "idle"
    /\ pFlow = "none"
    /\ pInput = <<>>
    /\ pGeoState = <<>>
    /\ pGeoOut = <<>>
    /\ pOrder = <<>>
    /\ pLocations = <<>>
    /\ pDirections = <<>>
    /\ pRoute = NoValue
    /\ pOutcome = NoValue
    /\ capturedRouteData = NoValue
    /\ capturedSearchResults = NoValue
    /\ aPc = "idle"
    /\ aRequest = NoValue
    /\ aToolRuns = 0
    /\ aCapturedBy = {}
    /\ aLastCapture = "none"
    /\ aResponse = NoValue
    /\ accessToken = Null
    /\ query = ""
    /\ loading = FALSE
    /\ error = Null
    /\ aiResponse = Null
    /\ routeData = NoValue
    /\ searchResults = <<>>
    /\ tokenStorage = Null
    /\ oauthState = Null
    /\ clientStorage = NoValue
    /\ envClientId = ""
    /\ location = HomeUrl
    /\ oPc = "loading"
    /\ regPending = 0
    /\ regCount = 0
    /\ exPending = NoValue
    /\ tokenRequests = <<>>
    /\ exchangeCount = 0
    /\ exchangeLog = {}
    /\ exResponse = NoValue
    /\ cbRequest = NoValue
    /\ callLog = <<>>
    /\ fCalls = [c \in 1..MaxOverlap |-> IdleCall]
    /\ fLatest = Null
    /\ rCalls = [c \in 1..MaxOverlap |-> IdleQuery]
    /\ rWriter = [search |-> 0, route |-> 0]
    /\ lCalls = [c \in 1..MaxOverlap |-> IdleLocalCall]
    /\ lCreated = 0
    /\ lConnect = "none"

\* the page after a login: the token is held by the component
InitAgent ==
    /\ tPc = "idle"
    /\ tCall = NoCall
    /\ tOpened = 0
    /\ tSent = <<>>
    /\ tResult = NoValue
    /\ tOutcome = NoValue
    /\ mcpClient = "null"
    /\ hStatus = 0
    /\ hBody = <<>>
    /\ pPc = "idle"
    /\ pFlow = "none"
    /\ pInput = <<>>
    /\ pGeoState = <<>>
    /\ pGeoOut = <<>>
    /\ pOrder = <<>>
    /\ pLocations = <<>>
    /\ pDirections = <<>>
    /\ pRoute = NoValue
    /\ pOutcome = NoValue
    /\ capturedRouteData = NoValue
    /\ capturedSearchResults = NoValue
    /\ aPc = "idle"
    /\ aRequest = NoValue
    /\ aToolRuns = 0
    /\ aCapturedBy = {}
    /\ aLastCapture = "none"
    /\ aResponse = NoValue
    /\ accessToken \in Tokens
    /\ query = ""
    /\ loading = FALSE
    /\ error = Null
    /\ aiResponse = Null
    /\ routeData = NoValue
    /\ searchResults = <<>>
    /\ tokenStorage = accessToken
    /\ oauthState = Null
    /\ clientStorage = NoValue
    /\ envClientId = "env-client"
    /\ location = HomeUrl
    /\ oPc = "mounted"
    /\ regPending = 0
    /\ regCount = 0
    /\ exPending = NoValue
    /\ tokenRequests = <<>>
    /\ exchangeCount = 0
    /\ exchangeLog = {}
    /\ exResponse = NoValue
    /\ cbRequest = NoValue
    /\ callLog = <<>>
    /\ fCalls = [c \in 1..MaxOverlap |-> IdleCall]
    /\ fLatest = Null
    /\ rCalls = [c \in 1..MaxOverlap |-> IdleQuery]
    /\ rWriter = [search |-> 0, route |-> 0]
    /\ lCalls = [c \in 1..MaxOverlap |-> IdleLocalCall]
    /\ lCreated = 0
    /\ lConnect = "none"

\* a first visit of the page, the client id configured or not
InitOAuth ==
    /\ tPc = "idle"
    /\ tCall = NoCall
    /\ tOpened = 0
    /\ tSent = <<>>
    /\ tResult = NoValue
    /\ tOutcome = NoValue
    /\ mcpClient = "null"
    /\ hStatus = 0
    /\ hBody = <<>>
    /\ pPc = "idle"
    /\ pFlow = "none"
    /\ pInput = <<>>
    /\ pGeoState = <<>>
    /\ pGeoOut = <<>>
    /\ pOrder = <<>>
    /\ pLocations = <<>>
    /\ pDirections = <<>>
    /\ pRoute = NoValue
    /\ pOutcome = NoValue
    /\ capturedRouteData = NoValue
    /\ capturedSearchResults = NoValue
    /\ aPc = "idle"
    /\ aRequest = NoValue
    /\ aToolRuns = 0
    /\ aCapturedBy = {}
    /\ aLastCapture = "none"
    /\ aResponse = NoValue
    /\ accessToken = Null
    /\ query = ""
    /\ loading = FALSE
    /\ error = Null
    /\ aiResponse = Null
    /\ routeData = NoValue
    /\ searchResults = <<>>
    /\ tokenStorage = Null
    /\ oauthState = Null
    /\ clientStorage = NoValue
    /\ envClientId \in {"", "env-client"}
    /\ location = HomeUrl
    /\ oPc = "loading"
    /\ regPending = 0
    /\ regCount = 0
    /\ exPending = NoValue
    /\ tokenRequests = <<>>
    /\ exchangeCount = 0
    /\ exchangeLog = {}
    /\ exResponse = NoValue
    /\ cbRequest = NoValue
    /\ callLog = <<>>
    /\ fCalls = [c \in 1..MaxOverlap |-> IdleCall]
    /\ fLatest = Null
    /\ rCalls = [c \in 1..MaxOverlap |-> IdleQuery]
    /\ rWriter = [search |-> 0, route |-> 0]
    /\ lCalls = [c \in 1..MaxOverlap |-> IdleLocalCall]
    /\ lCreated = 0
    /\ lConnect = "none"

SpecTools == Init /\ [][NextTools]_vars

SpecPlan == Init /\ [][NextPlan]_vars

SpecAgent == InitAgent /\ [][NextAgent]_vars

SpecOAuth == InitOAuth /\ [][NextOAuth]_vars

SpecAuthUrl == InitOAuth /\ [][NextAuthUrl]_vars

SpecFetch == Init /\ [][NextFetch]_vars

SpecFacade == Init /\ [][NextFacade]_vars

SpecRace == Init /\ [][NextRace]_vars

SpecLocal == Init /\ [][NextLocal]_vars

SpecSession == InitAgent /\ [][NextSession]_vars

SpecCallback == InitOAuth /\ [][NextCallback]_vars

-----------------------------------------------------------------------------
(* Properties of the tool operations (under SpecTools) *)

\* the operation in progress has received the tool's answer and has ended
Answered(op) == tPc = "done" /\ tCall.op = op /\ tResult # NoValue

\* C2: every tool result with isError = true makes the operation throw; the
\* message contains the first content entry's text when that entry is a text
\* entry, and is the generic 'MCP tool returned an error' when the first entry
\* is absent (empty content) or is not a text entry.
C2_ErrorResultThrowsTextOrGeneric ==
    (tPc = "done" /\ tResult # NoValue /\ IsError(tResult)) =>
        /\ tOutcome.kind = "throw"
        /\ IF Len(tResult.content) > 0 /\ tResult.content[1].type = "text"
           THEN \E i \in 1..Len(tOutcome.message) : tOutcome.message[i] = tResult.content[1].text
           ELSE tOutcome.message = <<"MCP tool returned an error">>

\* C3: calculateRoute with fewer than 2 coordinates fails with a validation
\* error before any network activity: no client connection is opened and no
\* directions_tool request is sent.
C3_ShortRouteFailsBeforeNetwork ==
    (tCall.op = "calculateRoute" /\ Len(tCall.args.coordinates) < 2) =>
        /\ tOpened = 0
        /\ tSent = <<>>
        /\ tPc = "done" => tOutcome.kind = "throw"

\* C8: categorySearch returns the empty sequence, and does not throw, whenever
\* the tool answers without isError and without features (no structured
\* content, no features field, or an empty list); the category-search handler
\* then answers 200 with the empty list.
C8_NoFeaturesGivesEmptyList ==
    (Answered("categorySearch") /\ ~IsError(tResult) /\ NoFeatures(tResult)) =>
        /\ tOutcome = Return(<<>>)
        /\ tCall.via = "handler" => (hStatus = 200 /\ hBody = <<>>)

C8_Witness ==
    /\ Answered("categorySearch")
    /\ tCall.via = "handler"
    /\ ~IsError(tResult)
    /\ Has(tResult, "structuredContent")
    /\ Has(tResult.structuredContent, "features")
    /\ tResult.structuredContent.features = <<>>
    /\ hStatus = 200

\* C9: geocodeLocation throws 'Could not geocode: <address>' whenever the tool
\* answers without isError and with an empty or absent feature collection;
\* otherwise it returns the name and the coordinates of the first feature, and
\* nothing else.
C9_GeocodeNotFoundOrFirstFeature ==
    (Answered("geocodeLocation") /\ ~IsError(tResult)) =>
        IF NoFeatures(tResult)
        THEN tOutcome = Throw("Error", <<"Could not geocode: ", tCall.args.address>>)
        ELSE /\ tOutcome.kind = "return"
             /\ DOMAIN tOutcome.value = {"name", "coordinates"}
             /\ tOutcome.value.coordinates =
                    tResult.structuredContent.features[1].geometry.coordinates
             /\ tOutcome.value.name =
                    Or(Prop(tResult.structuredContent.features[1].properties, "name"),
                       Prop(tResult.structuredContent.features[1].properties, "full_address"))

C9_Witness ==
    /\ Answered("geocodeLocation")
    /\ ~IsError(tResult)
    /\ Has(tResult, "structuredContent")
    /\ Has(tResult.structuredContent, "features")
    /\ tResult.structuredContent.features = <<>>
    /\ tOutcome.kind = "throw"

\* C10: calculateRoute throws 'No route found' whenever the directions tool
\* answers without isError and with zero routes or no routes field; otherwise
\* it returns exactly the first route.
C10_NoRouteOrFirstRoute ==
    (Answered("calculateRoute") /\ ~IsError(tResult)) =>
        IF NoRoutes(tResult)
        THEN tOutcome = Throw("Error", <<"No route found">>)
        ELSE tOutcome = Return(tResult.structuredContent.routes[1])

C10_Witness ==
    /\ Answered("calculateRoute")
    /\ ~IsError(tResult)
    /\ Has(tResult, "structuredContent")
    /\ Has(tResult.structuredContent, "routes")
    /\ tResult.structuredContent.routes = <<>>
    /\ tOutcome.kind = "throw"

\* a callMCPTool invocation of the hosted variant is in progress or has ended
HostedCall == tCall.op # "none" /\ tCall.variant = "hosted"

\* C15 (as stated): every hosted invocation opens exactly one connection and sends
\* exactly one tools/call request on it: once it has ended, connections opened =
\* requests sent = 1.
C15_OneConnectionOneRequest ==
    (HostedCall /\ tPc = "done") => (tOpened = 1 /\ Len(tSent) = 1)

\* C15 (amended): every hosted invocation opens exactly one new connection, whatever
\* the state of any other client; it sends the one tools/call request of its
\* operation once the connection is established and none when connect fails; it
\* never sends a second request, whatever the answer.
C15_OneConnectionAtMostOneRequest ==
    HostedCall =>
        /\ tOpened = 1
        /\ tPc = "connecting" => tSent = <<>>
        /\ tPc = "requesting" => tSent = <<Request(tCall)>>
        /\ tPc = "done" =>
              IF tOutcome = Throw("Error", <<"connect failed">>)
              THEN tSent = <<>>
              ELSE tSent = <<Request(tCall)>>

\* a hosted invocation has ended with an error answer from the tool, after a local
\* call has left its shared client connected
C15_Witness ==
    /\ HostedCall
    /\ tPc = "done"
    /\ tResult # NoValue
    /\ tOutcome.kind = "throw"
    /\ mcpClient = "connected"

-----------------------------------------------------------------------------
(* Properties of route planning (under SpecPlan) *)

\* a geocoding call of the request in progress has failed
GeocodeFailed ==
    \E i \in DOMAIN pGeoOut : pGeoState[i] = "settled" /\ pGeoOut[i].kind = "throw"

\* the request in progress has ended with a failure
PlanFailed ==
    /\ pPc = "done"
    /\ pFlow = "tool" => pOutcome.kind = "throw"
    /\ pFlow = "handler" => (pOutcome.status = 500 /\ Has(pOutcome.body, "error"))

\* the request in progress has ended with a route
PlanSucceeded ==
    /\ pPc = "done"
    /\ pFlow = "tool" => pOutcome.kind = "return"
    /\ pFlow = "handler" => pOutcome.status = 200

\* the locations array of a successful plan: captured by the tool, in the
\* response body of the handler
PlanLocationsResult ==
    IF pFlow = "tool" THEN capturedRouteData.locations ELSE pOutcome.body.locations

\* C4: if any one geocoding call fails, the whole request fails: the directions
\* tool is never invoked, no route is returned and no route data is captured;
\* route calculation starts only after every geocoding call has completed
\* successfully.
C4_GeocodeFailureAbortsPlan ==
    /\ GeocodeFailed =>
        /\ PlanFailed
        /\ pDirections = <<>>
        /\ capturedRouteData = NoValue
    /\ pDirections # <<>> =>
        \A i \in DOMAIN pGeoState : pGeoState[i] = "settled" /\ pGeoOut[i].kind = "return"

C4_Witness ==
    /\ pFlow = "tool"
    /\ GeocodeFailed
    /\ \E i \in DOMAIN pGeoOut : pGeoState[i] = "settled" /\ pGeoOut[i].kind = "return"
    /\ pPc = "done"

\* C5 (as claimed): a successful route plan returns a locations array of the
\* input's length whose i-th entry is the geocoding result of the i-th input,
\* and the coordinates sent to the directions tool are in input order.
C5_EntriesAreGeocodingResults ==
    PlanSucceeded =>
        /\ Len(PlanLocationsResult) = Len(pInput)
        /\ \A i \in 1..Len(pInput) : PlanLocationsResult[i] = pGeoOut[i].value
        /\ pDirections = <<[i \in 1..Len(pInput) |-> pGeoOut[i].value.coordinates]>>

\* C5 (amended): a successful route plan returns a locations array of the
\* input's length whose i-th entry carries the coordinates of the geocoding
\* result of the i-th input, whatever the order of completion; in the
\* plan-route tool the entry is that geocoding result, in the plan handler it
\* is named after the i-th attraction; the coordinates sent to the directions
\* tool are in input order.
C5_LocationsInInputOrder ==
    PlanSucceeded =>
        /\ Len(PlanLocationsResult) = Len(pInput)
        /\ \A i \in 1..Len(pInput) :
            /\ PlanLocationsResult[i].coordinates = pGeoOut[i].value.coordinates
            /\ pFlow = "tool" => PlanLocationsResult[i] = pGeoOut[i].value
            /\ pFlow = "handler" => PlanLocationsResult[i].name = pInput[i].name
        /\ pDirections = <<[i \in 1..Len(pInput) |-> pGeoOut[i].value.coordinates]>>

C5_Witness ==
    /\ PlanSucceeded
    /\ pFlow = "tool"
    /\ pOrder[1] # 1
    /\ pGeoOut[1].value # pGeoOut[2].value

\* the RouteResult of a successful plan: returned by the tool, the response body of the handler
RouteResult ==
    IF pFlow = "tool" THEN pOutcome.value ELSE pOutcome.body

\* meters x 0.000621371 to two decimals, for the routes the directions tool answers with:
\* 1609.34 m is "1.00" and 1600 m is "0.99"
TwoDecimalMiles(cm) ==
    CASE cm = 160934 -> [fixed2 |-> 100]
      [] cm = 160000 -> [fixed2 |-> 99]

\* meters x 0.000621371 itself: 1609.34 m is 0.99999720514 and 1600 m is 0.9941936
ProductMiles(cm) ==
    CASE cm = 160934 -> [e8 |-> 99999720, e11 |-> 514]
      [] cm = 160000 -> [e8 |-> 99419360, e11 |-> 0]

\* seconds / 60 to the nearest integer: 125 s is 2, 600 s is 10, 100 s is 2
NearestMinutes(seconds) ==
    CASE seconds = 125 -> 2
      [] seconds = 600 -> 10
      [] seconds = 100 -> 2

\* C11 (as stated): every RouteResult, of the plan-route tool and of the plan handler,
\* reports the distance rounded to two decimals and the duration in whole minutes.
C11_EveryRouteResultIsRounded ==
    PlanSucceeded =>
        /\ RouteResult.distance = TwoDecimalMiles(pRoute.distance)
        /\ RouteResult.duration = NearestMinutes(pRoute.duration)

\* C11 (amended): the plan-route tool reports (and captures) the distance rounded to
\* two decimals, the plan handler reports the product meters x 0.000621371 unrounded;
\* both report the duration as seconds / 60 rounded to the nearest integer.
C11_ToolRoundsHandlerKeepsProduct ==
    PlanSucceeded =>
        /\ RouteResult.duration = NearestMinutes(pRoute.duration)
        /\ pFlow = "tool" =>
              /\ RouteResult.distance = TwoDecimalMiles(pRoute.distance)
              /\ capturedRouteData.distance = TwoDecimalMiles(pRoute.distance)
              /\ capturedRouteData.duration = NearestMinutes(pRoute.duration)
        /\ pFlow = "handler" => RouteResult.distance = ProductMiles(pRoute.distance)

\* the handler has answered with the route of 1609.34 m
C11_Witness ==
    /\ PlanSucceeded
    /\ pFlow = "handler"
    /\ pRoute.distance = 160934
    /\ pRoute.duration = 125

\* C17: the plan handler answers a request whose attraction list is missing or has
\* fewer than 2 entries with status 400 and a JSON error body, and makes no
\* geocoding or directions call for it.
C17_FewAttractionsAnswered400 ==
    (pFlow = "handler" /\ Len(pInput) < 2) =>
        /\ pPc = "done"
        /\ pOutcome = Response(400, [error |-> <<"At least 2 attractions are required">>])
        /\ pGeoState = <<>>
        /\ pGeoOut = <<>>
        /\ pOrder = <<>>
        /\ pLocations = <<>>
        /\ pDirections = <<>>
        /\ pRoute = NoValue

\* the handler has answered a request with a single attraction
C17_Witness ==
    /\ pFlow = "handler"
    /\ Len(pInput) = 1
    /\ pPc = "done"
    /\ pOutcome.status = 400

-----------------------------------------------------------------------------
(* Properties of natural-language queries (under SpecAgent) *)

\* processNaturalLanguageQuery has returned its envelope for the request in progress
Enveloped == aPc \in {"responded", "done"} /\ aResponse # NoValue /\ aResponse.status = 200

BothCaptured == {"search-category", "plan-route"} \subseteq aCapturedBy

\* C6 (as claimed): the response is tagged with the tool output most recently
\* produced during the invocation: 'search_results' if search-category produced
\* output last, 'route' if plan-route did, 'text' if neither produced output.
C6_TypeIsMostRecentCapture ==
    Enveloped =>
        aResponse.body.type =
            (CASE aLastCapture = "search-category" -> "search_results"
               [] aLastCapture = "plan-route" -> "route"
               [] OTHER -> "text")

\* C6 (amended): the response is tagged by which tools produced output during
\* the invocation, the route taking precedence whatever the order: 'route' if
\* plan-route produced output, else 'search_results' if search-category did,
\* else 'text'.
C6_TypeIsRouteThenSearchThenText ==
    Enveloped =>
        aResponse.body.type =
            (IF "plan-route" \in aCapturedBy THEN "route"
             ELSE IF "search-category" \in aCapturedBy THEN "search_results"
             ELSE "text")

C6_Witness ==
    /\ Enveloped
    /\ "plan-route" \in aCapturedBy
    /\ aLastCapture = "search-category"
    /\ aResponse.body.type = "route"

\* C7 (as claimed): when both search-category and plan-route produced output
\* during one call, the response envelope carries only the payload matching
\* its type, never both.
C7_EnvelopeCarriesOnePayload ==
    (Enveloped /\ BothCaptured) =>
        /\ aResponse.body.type = "route" => aResponse.body.searchResults = NoValue
        /\ aResponse.body.type = "search_results" => aResponse.body.routeData = NoValue

\* C7 (amended): exactly one type is reported and the page keeps only the
\* payload matching it; when both tools produced output the envelope carries
\* both payloads, the type is 'route' and the page drops the search results.
C7_PageKeepsOnePayload ==
    (Enveloped /\ aPc = "done" /\ aRequest.from = "page") =>
        /\ aResponse.body.type \in {"search_results", "route", "text"}
        /\ routeData # NoValue =>
            /\ aResponse.body.type = "route"
            /\ routeData = aResponse.body.routeData
            /\ searchResults = <<>>
        /\ searchResults # <<>> =>
            /\ aResponse.body.type = "search_results"
            /\ searchResults = aResponse.body.searchResults.value
            /\ routeData = NoValue
        /\ BothCaptured =>
            /\ aResponse.body.type = "route"
            /\ aResponse.body.searchResults # NoValue
            /\ routeData = aResponse.body.routeData
            /\ routeData # NoValue
            /\ searchResults = <<>>

C7_Witness ==
    /\ Enveloped
    /\ aPc = "done"
    /\ aRequest.from = "page"
    /\ BothCaptured
    /\ aResponse.body.searchResults # NoValue
    /\ aResponse.body.searchResults.value # <<>>
    /\ routeData # NoValue
    /\ searchResults = <<>>

\* C19: whenever the query handler answers the page's request with a 4xx/5xx status
\* and a JSON error body, the error the page shows is that body's message verbatim.
C19_PageShowsHandlerMessage ==
    (aPc = "done" /\ aRequest.from = "page" /\ aResponse # NoValue /\ aResponse.status >= 400) =>
        error = aResponse.body.error

-----------------------------------------------------------------------------
(* Properties of the OAuth flow (under SpecOAuth) *)

\* C1: a callback whose state differs from the value stored at login is rejected:
\* every invocation of exchangeCodeForToken made after a login stored a state is
\* for a callback carrying exactly that state.
C1_MismatchedStateIsRejected ==
    \A e \in exchangeLog : e.stored # Null => e.state = e.stored

\* the POSTs the n-th invocation of exchangeCodeForToken has sent
PostsOfCall(n) == {i \in DOMAIN tokenRequests : tokenRequests[i].call = n}

\* C12: exchangeCodeForToken sends at most one POST per invocation, always with
\* grant_type=authorization_code and with client_secret exactly when credentials are
\* in client storage; with no client id from storage or configuration it throws
\* without sending a request.
C12_ExchangeSendsOnePostOrThrows ==
    /\ \A n \in 1..exchangeCount : Cardinality(PostsOfCall(n)) <= 1
    /\ \A i \in DOMAIN tokenRequests :
        /\ tokenRequests[i].call \in 1..exchangeCount
        /\ tokenRequests[i].params.grant_type = "authorization_code"
    /\ exPending # NoValue =>
        /\ exPending.kind = "throw" <=> (clientStorage = NoValue /\ envClientId = "")
        /\ exPending.kind = "throw" =>
              /\ PostsOfCall(exchangeCount) = {}
              /\ exPending.message = <<"No client ID available for token exchange">>
        /\ exPending.kind # "throw" =>
              \E i \in PostsOfCall(exchangeCount) :
                 LET params == tokenRequests[i].params
                 IN /\ params.code = location.code
                    /\ clientStorage # NoValue =>
                          /\ params.client_secret = clientStorage.client_secret
                          /\ params.client_id = clientStorage.client_id
                    /\ clientStorage = NoValue =>
                          /\ params.client_secret = Undefined
                          /\ params.client_id = envClientId

\* an exchange is awaited whose POST carried the stored client secret
C12_Witness ==
    /\ exPending # NoValue
    /\ exPending.kind # "throw"
    /\ clientStorage # NoValue
    /\ PostsOfCall(exchangeCount) # {}

\* a step in which the awaited token request of the page settles
ExchangeAnswered ==
    /\ exPending # NoValue
    /\ exPending.kind # "throw"
    /\ exPending' = NoValue
    /\ oPc' = "mounted"

\* C13: when the token endpoint answers with a non-success status, the error raised
\* carries the raw response body and is shown, no token is stored, the page stays
\* unauthenticated, and no further request is sent for the exchange.
C13_FailedExchangeStoresNothing ==
    [][(ExchangeAnswered /\ ~exResponse'.ok) =>
          /\ error' = <<"Token exchange failed: ", "Failed to exchange code for token: ",
                        exResponse'.body>>
          /\ tokenStorage = Null /\ tokenStorage' = Null
          /\ accessToken' = Null
          /\ loading' = FALSE
          /\ tokenRequests' = tokenRequests
          /\ Cardinality(PostsOfCall(exchangeCount)) = 1
          /\ exchangeCount' = exchangeCount]_vars

\* a failed exchange has settled: its error is shown and nothing is stored
C13_Witness ==
    /\ exResponse # NoValue
    /\ ~exResponse.ok
    /\ exPending = NoValue
    /\ error = <<"Token exchange failed: ", "Failed to exchange code for token: ",
                 exResponse.body>>
    /\ tokenStorage = Null
    /\ accessToken = Null

-----------------------------------------------------------------------------
(* Properties of getAuthorizationUrl (under SpecAuthUrl) *)

\* C14: getAuthorizationUrl throws when no client id is available from its argument
\* or from configuration, and never builds a URL whose client_id is empty.
C14_NoUrlWithEmptyClientId ==
    \A i \in DOMAIN callLog :
        LET call == callLog[i]
        IN IF Or(call.clientId, envClientId) = ""
           THEN call.out.kind = "throw"
           ELSE call.out.kind = "return" /\ call.out.value.client_id # ""

-----------------------------------------------------------------------------
(* Properties of the hosted transport's requests (under SpecFetch) *)

\* the values a request carries under the Authorization header
AuthorizationValues(request) ==
    [i \in {j \in 1..Len(request.headers) : request.headers[j][1] = "authorization"} |->
        request.headers[i][2]]

\* C16: every outbound request of a hosted tool call carries exactly one
\* Authorization header, "Bearer " followed by the token passed to that call,
\* whatever Authorization header the request had and whatever calls overlap it;
\* no header of the request has a spelling of Authorization left from before.
C16_EveryRequestCarriesItsOwnToken ==
    \A c \in 1..MaxOverlap :
        \A k \in 1..Len(fCalls[c].sent) :
            LET request == fCalls[c].sent[k]
                values == AuthorizationValues(request)
            IN /\ Cardinality(DOMAIN values) = 1
               /\ \A i \in DOMAIN values : values[i] = <<"Bearer ", fCalls[c].accessToken>>
               /\ \A j \in 1..Len(request.headers) : request.headers[j][1] # "Authorization"

\* two calls with different tokens overlap and both have sent requests
C16_Witness ==
    \E c, d \in 1..MaxOverlap :
        /\ fCalls[c].accessToken # Null
        /\ fCalls[d].accessToken # Null
        /\ fCalls[c].accessToken # fCalls[d].accessToken
        /\ Len(fCalls[c].sent) = 2
        /\ Len(fCalls[d].sent) >= 1
        /\ fLatest = fCalls[d].accessToken

-----------------------------------------------------------------------------
(* Properties of the OAuth variant's handlers (under SpecFacade) *)

\* a field of a request body is missing: absent or empty
Missing(field) == field \in {Undefined, ""}

\* the category-search handler has taken up a request
CategoryRequestTaken == tCall.via = "handler"

\* the query handler has taken up a request
QueryRequestTaken == aRequest # NoValue /\ aPc # "posted"

\* C18: the category-search and query handlers answer 400 when category / query is
\* missing, also when accessToken is missing too, and 401 when the field is present
\* and accessToken is missing; in both cases no MCP tool and no agent is invoked.
C18_MissingFieldsAnswered400Then401 ==
    /\ CategoryRequestTaken =>
          IF Missing(tCall.args.category)
          THEN /\ hStatus = 400
               /\ hBody = [error |-> <<"Category is required">>]
               /\ tCall.op = "none" /\ tOpened = 0 /\ tSent = <<>> /\ tPc = "done"
          ELSE IF Missing(tCall.args.accessToken)
          THEN /\ hStatus = 401
               /\ hBody = [error |-> <<"Access token is required">>]
               /\ tCall.op = "none" /\ tOpened = 0 /\ tSent = <<>> /\ tPc = "done"
          ELSE tCall.op = "categorySearch" /\ tOpened = 1
    /\ QueryRequestTaken =>
          IF Missing(aRequest.body.query)
          THEN /\ aPc \in {"responded", "done"}
               /\ aResponse = Response(400, [error |-> "Query is required"])
               /\ aToolRuns = 0 /\ aCapturedBy = {}
          ELSE IF Missing(aRequest.body.accessToken)
          THEN /\ aPc \in {"responded", "done"}
               /\ aResponse = Response(401, [error |-> "Access token is required"])
               /\ aToolRuns = 0 /\ aCapturedBy = {}
          ELSE aPc = "generating" \/ aResponse.status \in {200, 500}

\* both handlers have answered a request that misses the field and the token
C18_Witness ==
    /\ CategoryRequestTaken
    /\ Missing(tCall.args.category) /\ Missing(tCall.args.accessToken)
    /\ hStatus = 400
    /\ QueryRequestTaken
    /\ Missing(aRequest.body.query) /\ Missing(aRequest.body.accessToken)
    /\ aResponse.status = 400

\* the last callback request carried a code and a state and no error
CallbackWithCode ==
    /\ cbRequest # NoValue
    /\ Truthy(cbRequest.code) /\ Truthy(cbRequest.state) /\ ~Truthy(cbRequest.error)

\* a step in which GET /auth/callback answers and the browser follows its redirect
CallbackStep == oPc # "loading" /\ oPc' = "loading" /\ cbRequest' # NoValue

LogoutStep == oPc = "mounted" /\ oPc' = "mounted" /\ accessToken # Null /\ accessToken' = Null

\* a step of the mount effect that finds a token in the URL fragment
FragmentTokenStep ==
    /\ oPc = "loading" /\ oPc' = "mounted"
    /\ tokenStorage = Null
    /\ Truthy(location.access_token)

\* a step in which a token exchange succeeds
ExchangeSucceeds == ExchangeAnswered /\ exResponse'.ok

\* C21: handleLogout leaves no token in the store and none in the page; the store
\* gets a token only by a successful token exchange or from the URL fragment, and
\* the page never holds a token the store does not hold.
C21_TokenOnlyFromExchangeOrFragment ==
    /\ [](accessToken # Null => tokenStorage = accessToken)
    /\ [][LogoutStep => (tokenStorage' = Null /\ accessToken' = Null)]_vars
    /\ [][(tokenStorage' # tokenStorage /\ tokenStorage' # Null) =>
            \/ ExchangeSucceeds /\ tokenStorage' = exResponse'.body.access_token
            \/ FragmentTokenStep /\ tokenStorage' = location.access_token]_vars

\* the page after a logout that followed a successful exchange
C21_Witness ==
    /\ oPc = "mounted"
    /\ exResponse # NoValue
    /\ exResponse.ok
    /\ tokenStorage = Null
    /\ accessToken = Null


\* a step in which handleLogin sends a registration request
RegistrationIssued == regCount' = regCount + 1

\* C22: handleLogin sends a registration request only when client storage holds no
\* credentials and no client id is configured; stored credentials stay stored, so
\* once a registration's credentials are stored no later login registers again.
C22_RegistersOnlyWithoutCredentials ==
    /\ [][RegistrationIssued =>
            (clientStorage = NoValue /\ ~Truthy(envClientId) /\ oPc = "mounted")]_vars
    /\ [][clientStorage # NoValue => clientStorage' # NoValue]_vars
    /\ [][regCount' # regCount => RegistrationIssued]_vars

\* a login made with stored credentials, after an earlier round trip through the
\* callback: it left for the authorization server without registering again
C22_Witness ==
    /\ clientStorage # NoValue
    /\ regCount = 1
    /\ exchangeCount >= 1
    /\ oPc = "away"
    /\ location.page = "authServer"
    /\ location.client_id = clientStorage.client_id

\* a step in which the mount effect handles a callback's code and state
CallbackProcessed == oPc = "loading" /\ oPc' = "mounted" /\ exchangeCount' = exchangeCount + 1

\* C23: the state stored at login is single-use: handling a callback removes it from
\* session storage, and a callback carrying a state that an earlier callback already
\* carried is not handled again.
C23_StateNonceIsSingleUse ==
    /\ [][CallbackProcessed => oauthState' = Null]_vars
    /\ [][CallbackProcessed => \A e \in exchangeLog : e.state # location.state]_vars

\* C24: client credentials are created once and never rotated: whatever logins
\* (overlapping ones too) and logouts happen, credentials are written to client
\* storage only when it holds none, so they are never replaced or removed and at
\* most one registration ends in stored credentials.
C24_CredentialsCreatedOnce ==
    [][clientStorage' # clientStorage => clientStorage = NoValue]_vars

-----------------------------------------------------------------------------
(* Properties of the capture variables (under SpecRace and SpecAgent) *)

\* call c has returned
Returned(c) == rCalls[c].pc = "returned"

\* the response of call c holds a payload that no tool of call c assigned
CarriesForeign(c) ==
    /\ Returned(c)
    /\ \/ /\ rCalls[c].response.searchResults # NoValue
          /\ ~(rCalls[c].from.search = c /\ "search-category" \in rCalls[c].captured)
       \/ /\ rCalls[c].response.routeData # NoValue
          /\ ~(rCalls[c].from.route = c /\ "plan-route" \in rCalls[c].captured)

\* a tool of call c captured a payload and the response of call c does not hold it
LostOwn(c) ==
    /\ Returned(c)
    /\ \/ "search-category" \in rCalls[c].captured /\ rCalls[c].from.search # c
       \/ "plan-route" \in rCalls[c].captured /\ rCalls[c].from.route # c

\* C25: overlapping processNaturalLanguageQuery calls race on the module-level capture
\* variables: a response can carry a payload captured by a tool of the other call, or
\* miss its own after the other call's reset (the witness is such a response), and
\* this happens only to a call that was in flight together with another one.
C25_OverlappingCallsRaceOnCaptures ==
    \A c \in 1..MaxOverlap :
        /\ Returned(c) =>
              /\ rCalls[c].response.searchResults # NoValue => rCalls[c].from.search # 0
              /\ rCalls[c].response.routeData # NoValue => rCalls[c].from.route # 0
        /\ (CarriesForeign(c) \/ LostOwn(c)) => rCalls[c].overlapped

\* call c captured search results, call d began and cleared them, d's plan-route
\* captured a route, and c returned: without its own results, with d's route
C25_Witness ==
    \E c, d \in 1..MaxOverlap :
        /\ c # d
        /\ Returned(c)
        /\ rCalls[c].captured = {"search-category"}
        /\ rCalls[c].response.searchResults = NoValue
        /\ rCalls[c].response.routeData # NoValue
        /\ rCalls[c].response.type = "route"
        /\ rCalls[c].from.route = d

\* a step in which processNaturalLanguageQuery starts
QueryStarts == aPc = "posted" /\ aPc' = "generating"

\* C26: calls that do not overlap depend on their own invocation only: every call
\* starts by clearing both capture variables, so what they hold during a call, and
\* what its response carries, was captured by a tool of this call; a call whose
\* tools captured nothing answers type 'text' without a payload.
C26_ResponseDependsOnOwnCallOnly ==
    /\ [][QueryStarts => (capturedSearchResults' = NoValue /\ capturedRouteData' = NoValue)]_vars
    /\ [](aPc = "generating" =>
            /\ capturedSearchResults # NoValue => "search-category" \in aCapturedBy
            /\ capturedRouteData # NoValue => "plan-route" \in aCapturedBy)
    /\ [](Enveloped =>
            /\ aResponse.body.searchResults # NoValue => "search-category" \in aCapturedBy
            /\ aResponse.body.routeData # NoValue => "plan-route" \in aCapturedBy
            /\ aCapturedBy = {} =>
                  /\ aResponse.body.type = "text"
                  /\ aResponse.body.searchResults = NoValue
                  /\ aResponse.body.routeData = NoValue)

\* the page still shows the results of an earlier call when another client's call,
\* whose agent ran no capturing tool, is answered
C26_Witness ==
    /\ Enveloped
    /\ aRequest.from = "api"
    /\ aCapturedBy = {}
    /\ searchResults # <<>>
    /\ aResponse.body.type = "text"
    /\ aResponse.body.searchResults = NoValue

-----------------------------------------------------------------------------
(* Properties of the local variant's singleton client (under SpecLocal) *)

\* C27: in the local variant at most one client and one transport are ever created,
\* whatever the number and interleaving of getMCPClient calls, and every call in
\* progress uses that client.
C27_OneClientForEveryCall ==
    /\ lCreated <= 1
    /\ \A c \in 1..MaxOverlap : lCalls[c].pc # "idle" => lCalls[c].client = 1

\* a second call arrived while the first call's connect was in progress
C27_Witness ==
    \E c, d \in 1..MaxOverlap :
        /\ c # d
        /\ lCalls[c].pc = "connecting"
        /\ lCalls[d].pc = "holding"
        /\ lCalls[d].client = lCalls[c].client
        /\ lCreated = 1

\* C28: getMCPClient hands out only a client whose connect has completed successfully,
\* and no tools/call request is sent on a client whose connect is in progress or failed.
C28_OnlyConnectedClientHandedOut ==
    \A c \in 1..MaxOverlap :
        /\ lCalls[c].handed \in {"none", "ok"}
        /\ lCalls[c].sentWhile \in {"none", "ok"}

-----------------------------------------------------------------------------
(* Properties of a logged-in page (under SpecSession) *)

\* C29: after handleLogout the page holds no result of a query submitted before it,
\* also when the logout came while the request was in flight: once logged out,
\* aiResponse, routeData and searchResults stay empty and the request that was in
\* flight no longer changes loading or error.
C29_LogoutLeavesNoResult ==
    /\ [](accessToken = Null =>
            (aiResponse = Null /\ routeData = NoValue /\ searchResults = <<>>))
    /\ [][accessToken = Null => (loading' = loading /\ error' = error)]_vars

-----------------------------------------------------------------------------
(* Properties of GET /auth/callback (under SpecCallback) *)

\* C30: the callback handler decides by a fixed precedence and makes no network call:
\* with an error parameter it redirects to /?error=<error>, whatever code and state
\* are; else with code or state missing to /?error=missing_parameters; else to / with
\* exactly the received code and state in the fragment, as the page reads them.
C30_PrecedenceAndExactFragment ==
    /\ tokenRequests = <<>>
    /\ regCount = 0
    /\ \A i \in DOMAIN callLog :
        LET call == callLog[i]
        IN IF NonEmpty(call.error)
           THEN /\ call.out.hash = <<>>
                /\ URLSearchParamsGet(call.out.search, <<"error">>) = Present(call.error.value)
           ELSE IF ~NonEmpty(call.code) \/ ~NonEmpty(call.state)
           THEN /\ call.out.hash = <<>>
                /\ call.out.search = <<"error", "=", "missing_parameters">>
           ELSE /\ call.out.search = <<>>
                /\ URLSearchParamsGet(call.out.hash, <<"code">>) = Present(call.code.value)
                /\ URLSearchParamsGet(call.out.hash, <<"state">>) = Present(call.state.value)
=============================================================================
